---- MODULE Spec2Model ----
(***************************************************************************)
(* Verification model of the memorai conversational memory engine:         *)
(* the memory store (row store + ANN index), the detached extraction       *)
(* pipeline (canonicalizer, deduplicator, create) and the turn             *)
(* orchestrator (process_conversation).                                    *)
(*                                                                         *)
(* Texts are sequences of word tokens; a keyword test `phrase in text`     *)
(* of the code is the membership of the phrase token in the text.          *)
(* Scores are fixed-point integers in millionths (ppm).                    *)
(***************************************************************************)
EXTENDS Integers, Sequences, FiniteSets, TLC

\* ------------------------------------------------------------------ bounds
MaxMem == 3
MaxTurnReqs == 2
MaxCrudOps == 3
MaxSeeds == 2
MaxOrchestratedTurns == 1

Users == {"u1", "u2"}
ConvIds == 1..MaxTurnReqs
TaskIds == 1..MaxTurnReqs
MemIds == 1..MaxMem

None == "None"
NULL == "NULL"
\* absent values of typed fields
NoText == <<>>
NoTurn == 0 - 1
NoConfidence == 0 - 1
NoConv == 0

\* ------------------------------------------------------------------ texts
TxtBangalore == <<"user", "lives", "bangalore">>
TxtBangaloreCased == <<" ", "User", "lives", "Bangalore">>
TxtCallMorning == <<"prefers", "call", "morning">>
TxtCallEleven == <<"prefers", "call", "11am">>
TxtName == <<"name is", "raj">>

MsgHi == <<"hi">>
MsgCalendar == <<"calendar", "tomorrow">>
MsgEverything == <<"everything", "about me">>
MsgExplain == <<"explain", "tcp">>
MsgWhere == <<"where", "live">>
MsgWeather == <<"weather">>

\* str.lower() on one token
LowerToken(t) ==
    CASE t = "User" -> "user"
      [] t = "Bangalore" -> "bangalore"
      [] OTHER -> t

\* str.lower()
Lower(s) == [i \in 1..Len(s) |-> LowerToken(s[i])]

RECURSIVE LStrip(_)
LStrip(s) == IF s # <<>> /\ Head(s) = " " THEN LStrip(Tail(s)) ELSE s

RECURSIVE RStrip(_)
RStrip(s) ==
    IF s # <<>> /\ s[Len(s)] = " " THEN RStrip(SubSeq(s, 1, Len(s) - 1)) ELSE s

\* str.strip()
Strip(s) == RStrip(LStrip(s))

\* sha256 of the lowercased, trimmed content; the digest is modelled as the
\* normalised text itself (sha256 taken as collision-free).
hash_content(content) == Strip(Lower(content))

\* `phrase in text`
Contains(text, phrase) == \E i \in 1..Len(text) : text[i] = phrase

ContainsAny(text, phrases) == \E p \in phrases : Contains(text, p)

\* sequence prefix seq[:n]
Prefix(seq, n) == SubSeq(seq, 1, IF Len(seq) < n THEN Len(seq) ELSE n)

Range(seq) == {seq[i] : i \in 1..Len(seq)}

\* ------------------------------------------------------------- embeddings
\* The embedding provider is external: each text has one fixed vector
\* (deterministic for identical input).  Vectors have norm 5.
EmbeddingOf(text) ==
    CASE text = TxtBangalore -> <<3, 4>>
      [] text = TxtBangaloreCased -> <<4, 3>>
      [] text = TxtCallMorning -> <<5, 0>>
      [] text = TxtCallEleven -> <<4, 3>>
      [] text = TxtName -> <<0, 5>>
      [] text = MsgWhere -> <<3, 4>>
      [] text = MsgExplain -> <<0, -5>>
      [] text = MsgWeather -> <<-3, -4>>
      [] Contains(text, "schedule") -> <<4, 3>>
      [] Contains(text, "important") -> <<5, 0>>
      [] Contains(text, "information") -> <<3, 4>>
      [] OTHER -> <<5, 0>>

Dot(a, b) == a[1] * b[1] + a[2] * b[2]

\* cosine similarity in ppm: dot / (|a| * |b|) with |a| = |b| = 5
Cosine(a, b) == (Dot(a, b) * 1000 * 1000) \div 25

\* ---------------------------------------------------------- canonicalizer
CANONICAL_KEYS ==
    << [key |-> "call_time", patterns |-> {"call", "phone", "meeting time"}],
       [key |-> "contact_preference", patterns |-> {"contact", "reach", "communicate"}],
       [key |-> "response_style", patterns |-> {"response", "answer", "reply style"}],
       [key |-> "language", patterns |-> {"language", "speak", "communicate in"}],
       [key |-> "meeting_time", patterns |-> {"meeting", "schedule", "appointment time"}],
       [key |-> "timezone", patterns |-> {"timezone", "time zone"}],
       [key |-> "availability", patterns |-> {"available", "free", "open"}],
       [key |-> "diet", patterns |-> {"diet", "eat", "food"}],
       [key |-> "favorite_food", patterns |-> {"favorite food", "likes to eat"}],
       [key |-> "allergies", patterns |-> {"allergic", "allergy", "cannot eat"}],
       [key |-> "work_hours", patterns |-> {"work hours", "working time"}],
       [key |-> "notification_preference", patterns |-> {"notification", "alert", "reminder"}],
       [key |-> "formality", patterns |-> {"formal", "casual", "tone"}],
       [key |-> "brevity", patterns |-> {"brief", "detailed", "length"}] >>

\* first key, in table order, one of whose patterns occurs in content.lower()
_detect_canonical_key(content) ==
    LET hits == {i \in 1..Len(CANONICAL_KEYS) :
                    ContainsAny(Lower(content), CANONICAL_KEYS[i].patterns)}
    IN IF hits = {} THEN None
       ELSE CANONICAL_KEYS[CHOOSE i \in hits : \A j \in hits : i <= j].key

CanonicalTypes == {"preference", "instruction"}

\* resolve_preference reaches _find_canonical_memory exactly for a
\* preference/instruction whose content has a canonical key.  There the
\* statement select(Memory) is built on app.models.memory.Memory, a pydantic
\* model that is no mapped table: building it raises, and the exception
\* leaves resolve_preference.
resolve_preference_raises(type, content) ==
    type \in CanonicalTypes /\ _detect_canonical_key(content) # None

\* ---------------------------------------------------------------- scoring
HOT_THRESHOLD == 50
WARM_THRESHOLD == 500
COLD_SIMILARITY_MIN == 750000
PPM == 1000 * 1000

_detect_query_type(query_text) ==
    IF ContainsAny(Lower(query_text),
                   {"schedule", "meeting", "appointment", "calendar", "call",
                    "tomorrow", "today", "next week", "remind"})
    THEN "schedule"
    ELSE IF ContainsAny(Lower(query_text),
                   {"my name", "who am i", "about me", "my job", "my location",
                    "my preference", "what do you know"})
    THEN "personal"
    ELSE "general"

\* weights in hundredths
_get_adaptive_weights(query_type) ==
    IF query_type = "schedule"
    THEN [alpha |-> 40, beta |-> 20, gamma |-> 10, delta |-> 10, epsilon |-> 10, zeta |-> 10]
    ELSE IF query_type = "personal"
    THEN [alpha |-> 45, beta |-> 10, gamma |-> 15, delta |-> 15, epsilon |-> 10, zeta |-> 5]
    ELSE [alpha |-> 45, beta |-> 15, gamma |-> 10, delta |-> 10, epsilon |-> 15, zeta |-> 5]

\* 0.993 ** n in ppm
RECURSIVE Pow993(_)
Pow993(n) == IF n = 0 THEN PPM ELSE (Pow993(n - 1) * 993) \div 1000

Max2(a, b) == IF a >= b THEN a ELSE b
Min2(a, b) == IF a <= b THEN a ELSE b

\* 0.993 ** d is below the floor 0.1 from this distance on
RECENCY_FLOOR_DISTANCE == 328

\* a recency score whose floor is 0.05
RecencyFloorHalved(source_turn, current_turn) ==
    IF current_turn <= 0 THEN PPM
    ELSE IF current_turn - source_turn <= 0 THEN PPM
    ELSE IF current_turn - source_turn >= RECENCY_FLOOR_DISTANCE THEN 50000
    ELSE Max2(Pow993(current_turn - source_turn), 50000)

_calculate_recency_score(source_turn, current_turn) ==
    IF current_turn <= 0 THEN PPM
    ELSE IF current_turn - source_turn <= 0 THEN PPM
    ELSE IF current_turn - source_turn >= RECENCY_FLOOR_DISTANCE THEN 100000
    ELSE Max2(Pow993(current_turn - source_turn), 100000)

\* math.log(1 + access_count) in ppm
UsageBoost(access_count) ==
    CASE access_count = 0 -> 0
      [] access_count = 1 -> 693147
      [] access_count = 2 -> 1098612
      [] access_count = 3 -> 1386294
      [] OTHER -> 6908755      \* access_count = 1000

_calculate_relevance_score(similarity, recency, confidence, access_count, is_conflicted, decay_penalty, weights) ==
    LET score == (weights.alpha * similarity
                  + weights.beta * recency
                  + weights.gamma * UsageBoost(access_count)
                  + weights.delta * confidence
                  - weights.epsilon * (IF is_conflicted THEN PPM ELSE 0)
                  - weights.zeta * decay_penalty) \div 100
    IN Min2(Max2(score, 0), PPM)

\* ------------------------------------------------------------------ search
MIN_CONFIDENCE == 500000

\* an ANN query that sends no metadata filter: the limit best of all users
AnnMatchesUnscoped(annIndex, user_id, query_text, limit) ==
    LET sim(e) == Cosine(EmbeddingOf(query_text), EmbeddingOf(e.content))
        n == Min2(limit, Cardinality(annIndex))
    IN {M \in SUBSET annIndex :
            /\ Cardinality(M) = n
            /\ \A a \in M, b \in annIndex \ M : sim(a) >= sim(b)}

\* the ANN query: entries whose metadata user_id equals the query's, the
\* limit best by cosine score
AnnMatches(annIndex, user_id, query_text, limit) ==
    LET scoped == {e \in annIndex : e.user_id = user_id}
        sim(e) == Cosine(EmbeddingOf(query_text), EmbeddingOf(e.content))
        n == Min2(limit, Cardinality(scoped))
    IN {M \in SUBSET scoped :
            /\ Cardinality(M) = n
            /\ \A a \in M, b \in scoped \ M : sim(a) >= sim(b)}

\* a result whose scores pass no range validation
MemorySearchResultUnvalidated(r) == TRUE

\* the range validation of MemoryMetadata (confidence, decay_score =
\* recency_score) and of MemorySearchResult on construction
MemorySearchResultValid(r) ==
    /\ 0 <= r.access_score /\ r.access_score <= PPM
    /\ 0 <= r.recency_score /\ r.recency_score <= PPM
    /\ 0 <= r.relevance_score /\ r.relevance_score <= PPM
    /\ -PPM <= r.similarity_score /\ r.similarity_score <= PPM

\* a tiering without the WARM tier
TierNoWarm(turn_distance) ==
    IF turn_distance <= HOT_THRESHOLD THEN "hot" ELSE "cold"

\* MemoryTier of a match by its turn distance
TierOf(turn_distance) ==
    IF turn_distance <= HOT_THRESHOLD THEN "hot"
    ELSE IF turn_distance <= WARM_THRESHOLD THEN "warm"
    ELSE "cold"

\* one match of the loop of search, given by its score and the metadata the
\* loop reads: the scores of the result, or nothing when the match is
\* discarded (filtered, or skipped by the `except` of the loop)
ScoredMatch(m, query_type, current_turn, min_confidence) ==
    LET similarity_score == m.score
        ct0 == IF current_turn = NoTurn THEN 0 ELSE current_turn
        recency_score == _calculate_recency_score(m.source_turn, ct0)
        turn_distance == ct0 - m.source_turn
        cold == TierOf(turn_distance) = "cold"
        turn_age == IF ct0 > 0 THEN ct0 - m.source_turn ELSE 0
        decay_penalty == Min2(PPM, turn_age * 1000)
        result == [relevance_score |-> _calculate_relevance_score(
                       similarity_score, recency_score, m.confidence, m.access_count,
                       m.is_conflicted, decay_penalty, _get_adaptive_weights(query_type)),
                   similarity_score |-> similarity_score,
                   recency_score |-> recency_score,
                   access_score |-> m.confidence]
    IN IF m.confidence < min_confidence THEN {}
       ELSE IF current_turn = NoTurn THEN {}   \* None > 0 raises; match skipped
       ELSE IF cold /\ similarity_score < COLD_SIMILARITY_MIN THEN {}
       ELSE IF ~MemorySearchResultValid(result) THEN {}
       ELSE {result}

\* the result search builds for the ANN entry e: create_memory writes no
\* access_count and no is_conflicted to the metadata, so the defaults apply
SearchResultOf(e, user_id, query_text, current_turn, min_confidence) ==
    LET m == [score |-> Cosine(EmbeddingOf(query_text), EmbeddingOf(e.content)),
              confidence |-> e.confidence, access_count |-> 0,
              source_turn |-> e.source_turn, is_conflicted |-> FALSE]
    IN {[memory_id |-> e.id, user_id |-> user_id, type |-> e.type,
         content |-> e.content, source_turn |-> e.source_turn,
         confidence |-> e.confidence,
         relevance_score |-> sc.relevance_score,
         similarity_score |-> sc.similarity_score,
         recency_score |-> sc.recency_score,
         access_score |-> sc.access_score]
        : sc \in ScoredMatch(m, _detect_query_type(query_text), current_turn,
                             min_confidence)}

\* the results in any order (no sort)
AnyOrder(S) ==
    {q \in [1..Cardinality(S) -> S] : \A i, j \in 1..Cardinality(S) : i # j => q[i] # q[j]}

\* all orders of the set S by non-increasing relevance_score
SortedByRelevance(S) ==
    {q \in [1..Cardinality(S) -> S] :
        /\ \A i, j \in 1..Cardinality(S) : i # j => q[i] # q[j]
        /\ \A i, j \in 1..Cardinality(S) :
              i < j => q[i].relevance_score >= q[j].relevance_score}

\* the possible return values of MemoryRetriever.search when nothing raises
SearchOk(annIndex, user_id, query_text, top_k, current_turn) ==
    UNION {
      LET scored == UNION {SearchResultOf(e, user_id, query_text, current_turn,
                                          MIN_CONFIDENCE) : e \in M}
      IN {Prefix(q, top_k) : q \in SortedByRelevance(scored)}
      : M \in AnnMatches(annIndex, user_id, query_text, Min2(top_k * 3, 50)) }

\* MemoryRetriever.search with its outer `except Exception`, which logs and
\* returns [].  failed: the embedder or the ANN query raises.
search_uncaught(annIndex, user_id, query_text, top_k, current_turn, failed) ==
    IF failed THEN {[raised |-> TRUE, results |-> <<>>]}
    ELSE {[raised |-> FALSE, results |-> r] :
             r \in SearchOk(annIndex, user_id, query_text, top_k, current_turn)}

search(annIndex, user_id, query_text, top_k, current_turn, failed) ==
    IF failed THEN {[raised |-> FALSE, results |-> <<>>]}
    ELSE {[raised |-> FALSE, results |-> r] :
             r \in SearchOk(annIndex, user_id, query_text, top_k, current_turn)}

\* ------------------------------------------------- orchestrator predicates
GreetingPhrases == {"hi", "hello", "hey", "greetings", "good morning",
                    "good afternoon", "good evening", "what's up", "howdy", "sup"}

TokenWords(t) == IF t = " " THEN 0 ELSE IF t \in {"name is", "about me"} THEN 2 ELSE 1

RECURSIVE WordCount(_)
WordCount(text) == IF text = <<>> THEN 0 ELSE TokenWords(Head(text)) + WordCount(Tail(text))

is_greeting(message) ==
    ContainsAny(Lower(message), GreetingPhrases) /\ WordCount(Lower(message)) <= 5

\* the schedule test that selects the retrieval branch
is_schedule_query(message) ==
    ContainsAny(Lower(message),
                {"schedule", "meeting", "appointment", "calendar", "tomorrow", "today",
                 "next week", "committed to", "plans for", "busy", "what's on", "agenda"})

is_broad_query(message) ==
    ContainsAny(Lower(message),
                {"about me", "about myself", "do you know about me", "what do you know",
                 "tell me everything", "remember about me", "my details", "each and every",
                 "all details", "everything about", "my fiancee", "my finacee",
                 "details what", "know about", "comprehensive", "full details",
                 "complete information"})

is_everything_query(message) ==
    ContainsAny(Lower(message),
                {"each and every", "everything", "all details", "comprehensive",
                 "full details", "complete information", "tell me everything"})

is_schedule_display(message) ==
    ContainsAny(Lower(message), {"schedule", "meeting", "appointment", "calendar", "plans"})

\* the schedule test that selects the prompt directive
is_schedule_prompt(message) ==
    ContainsAny(Lower(message),
                {"schedule", "meeting", "appointment", "calendar", "tomorrow", "today"})

is_comprehensive(message) == is_everything_query(message)

is_knowledge_query(message) ==
    ContainsAny(Lower(message),
                {"summarize", "summarise", "summary", "tell me about", "what is",
                 "explain", "describe", "book"})

memory_retrieval_top_k == 10

\* the fixed query texts of the profile and broad branches (each is prefixed
\* with the user id, which the fixed embedding of the text stands for)
QueryProfile == <<"user", "name", "facts", "preferences", "important", "information">>
QueryBroad == <<"user", "information", "facts", "details", "preferences",
                "commitments", "relationships">>
QueryScheduleSuffix == <<"schedule", "meeting", "appointment", "commitment", "plans">>

\* which of the four retrieval branches a request takes
RetrievalBranch(turn_number, message) ==
    IF (turn_number = 0 \/ turn_number = 1 \/ is_greeting(message)) /\ ~is_broad_query(message)
    THEN "profile"
    ELSE IF is_schedule_query(message) THEN "schedule"
    ELSE IF is_broad_query(message) THEN "broad"
    ELSE "normal"

BranchQuery(branch, message) ==
    CASE branch = "profile" -> QueryProfile
      [] branch = "schedule" -> message \o QueryScheduleSuffix
      [] branch = "broad" -> QueryBroad
      [] OTHER -> message

BranchTopK(branch, message) ==
    CASE branch = "profile" -> 15
      [] branch = "schedule" -> 20
      [] branch = "broad" -> IF is_everything_query(message) THEN 50 ELSE 30
      [] OTHER -> memory_retrieval_top_k

\* the schedule branch filters the results with
\* `result.memory.type in [MemoryType.COMMITMENT, MemoryType.EPISODIC]`;
\* MemoryType has no member EPISODIC, so evaluating the test for the first
\* result raises AttributeError; with no result the test is never evaluated.
ScheduleFilterRaises(results) == results # <<>>

Ids(results) == [i \in 1..Len(results) |-> results[i].memory_id]

\* max([r.relevance_score for r in search_results], default=0.0)
MaxRelevance(results) ==
    IF results = <<>> THEN 0
    ELSE CHOOSE m \in {results[i].relevance_score : i \in 1..Len(results)} :
            \A i \in 1..Len(results) : results[i].relevance_score <= m

SILENCE_THRESHOLD == 300000

SilenceMode(results, message) ==
    /\ MaxRelevance(results) < SILENCE_THRESHOLD
    /\ ~is_comprehensive(message)
    /\ ~is_knowledge_query(message)

\* content.split("name is")[-1]
RECURSIVE AfterLastNameIs(_)
AfterLastNameIs(content) ==
    IF ~Contains(content, "name is") THEN content
    ELSE IF Head(content) = "name is" /\ ~Contains(Tail(content), "name is")
         THEN Tail(content)
         ELSE AfterLastNameIs(Tail(content))

\* .split(",")[0]
RECURSIVE BeforeComma(_)
BeforeComma(text) ==
    IF text = <<>> \/ Head(text) = "," THEN <<>>
    ELSE <<Head(text)>> \o BeforeComma(Tail(text))

\* the name the greeting path takes from one memory, NoText when it takes none
NameIn(content) ==
    LET parts == Strip(BeforeComma(AfterLastNameIs(content)))
    IN IF (Contains(Lower(content), "user's name is") \/ Contains(Lower(content), "name is"))
          /\ parts # <<>> /\ WordCount(parts) <= 2
       THEN parts ELSE NoText

\* user_name: the name from the first result that holds one
RECURSIVE UserNameFrom(_)
UserNameFrom(results) ==
    IF results = <<>> THEN NoText
    ELSE IF NameIn(Head(results).content) # NoText THEN NameIn(Head(results).content)
    ELSE UserNameFrom(Tail(results))

\* the memory lines of memory_context
MemoryContext(include_memories, results, message) ==
    IF ~include_memories THEN [kind |-> "empty", ids |-> <<>>]
    ELSE IF results = <<>> THEN [kind |-> "none_found", ids |-> <<>>]
    ELSE IF is_schedule_display(message)
    THEN [kind |-> "schedule", ids |-> Ids(Prefix(results, 10))]
    ELSE [kind |-> "standard",
          ids |-> Ids(Prefix(results, IF ContainsAny(Lower(message),
                                          {"each and every", "everything", "all details"})
                                       THEN 30 ELSE 15))]

\* get_system_prompt: the insertion points of the template
get_system_prompt(memory_count, memory_context, silence_mode, greeting, schedule, comprehensive, knowledge, user_name) ==
    [memory_count |-> memory_count,
     memory_context |-> memory_context,
     silence_mode |-> silence_mode,
     special_directive |->
        IF comprehensive THEN "comprehensive"
        ELSE IF knowledge THEN "knowledge"
        ELSE IF schedule THEN "schedule"
        ELSE IF greeting /\ user_name # NoText THEN "returning_user_name"
        ELSE IF greeting /\ memory_count > 0 THEN "returning_user"
        ELSE "none",
     user_name |-> IF ~comprehensive /\ ~knowledge /\ ~schedule /\ greeting
                   THEN user_name ELSE NoText]

\* ------------------------------------------------------------------- state
VARIABLES
    rows,        \* committed rows of table memories
    ann,         \* entries of the ANN index (id + metadata)
    cache,       \* memory cache: memory_id -> {} or {cached Memory}
    nextId,      \* memory ids handed out so far (uuid4 is modelled as fresh)
    createdFor,  \* memory_id -> user_id the Memory object was built with
    convs,       \* conversation_id -> {} or {[user_id, turn_count]}
    turns,       \* committed rows of table conversation_turns
    nextTurnId,  \* turn ids handed out so far
    req,         \* the process_conversation call in flight
    reqCount,    \* process_conversation calls started
    tasks,       \* detached extraction tasks: task id -> task record
    titleTasks,  \* conversations for which title generation was scheduled
    crudCount,   \* explicit memory endpoint calls made
    lastSearch,  \* outcome of the last POST /memories/search
    lastOp,      \* outcome of the last memory endpoint or lifecycle call
    now,         \* the clock, in days
    embCache,    \* embedding cache: text -> {} or {stored value}
    embOp,       \* the last call of the embedder
    embCount,    \* calls of the embedder made
    probe,       \* one ANN match and what search made of it
    caller       \* the principal whose requests are being sent

vars == <<rows, ann, cache, nextId, createdFor, convs, turns, nextTurnId, req,
          reqCount, tasks, titleTasks, crudCount, lastSearch, lastOp, now,
          embCache, embOp, embCount, probe, caller>>

\* the variables no store, task or turn action writes
Side == <<now, embCache, embOp, embCount, probe, caller>>

Candidate(type, content, confidence) ==
    [type |-> type, content |-> content, confidence |-> confidence]

CandBangalore == Candidate("fact", TxtBangalore, 900000)
CandBangaloreCased == Candidate("fact", TxtBangaloreCased, 900000)
CandCallMorning == Candidate("preference", TxtCallMorning, 900000)
CandCallEleven == Candidate("preference", TxtCallEleven, 800000)
CandName == Candidate("fact", TxtName, 900000)

CandFriend == Candidate("entity", <<"friend", "priya">>, 900000)
CandNickname == Candidate("entity", <<"call me", "raj">>, 900000)
CandMaybeTea == Candidate("fact", <<"maybe", "likes", "tea">>, 600000)
CandDentist == Candidate("commitment", <<"dentist", "friday">>, 900000)

\* what the extractor may return for a turn (after its confidence filter)
CandidateLists ==
    { <<>>, <<CandBangalore>>, <<CandCallMorning>>, <<CandBangalore, CandCallEleven>> }

\* bodies of explicit POST /memories
CrudCandidates == {CandBangalore, CandBangaloreCased, CandCallMorning, CandName}

NoPrompt ==
    [memory_count |-> 0, memory_context |-> [kind |-> "empty", ids |-> <<>>],
     silence_mode |-> FALSE, special_directive |-> "none", user_name |-> NoText]

NoResponse ==
    [turn_id |-> 0, conversation_id |-> NoConv, turn_number |-> 0,
     active_memories |-> <<>>, memories_used |-> <<>>]

IdleReq ==
    [pc |-> "idle", user_id |-> None, conversation_id |-> NoConv, turn_number |-> 0,
     message |-> <<>>, include_memories |-> FALSE, turn_id |-> 0,
     branch |-> None, retrieval_failed |-> FALSE,
     search_returned |-> <<>>, search_results |-> <<>>, memories_used |-> <<>>,
     silence_mode |-> FALSE, prompt |-> NoPrompt, history |-> <<>>,
     history_failed |-> FALSE, llm_called |-> FALSE,
     stored_turn_id |-> 0, incremented |-> FALSE, task |-> 0,
     status |-> 0, failed_step |-> None, response |-> NoResponse]

\* nothing was called yet
NoOp ==
    [op |-> None, id |-> 0, user_id |-> None, failed_step |-> None, found |-> FALSE,
     content |-> NoText, deleted |-> {}, top_k |-> NoTurn, current_turn |-> NoTurn,
     updated_count |-> 0]

\* texts handed to the embedder
EmbedTexts == {TxtBangalore, TxtName}

\* the embedder was not called yet
NoEmbOp ==
    [op |-> None, texts |-> <<>>, cached_before |-> {}, cache_ok |-> TRUE,
     provider_texts |-> <<>>, returned |-> <<>>]

\* no match was scored yet
NoProbe ==
    [match |-> [score |-> 0, confidence |-> 0, access_count |-> 0, source_turn |-> 0,
                is_conflicted |-> FALSE],
     query_type |-> None, current_turn |-> 0, tier |-> None, results |-> {}]

NoTask ==
    [pc |-> "none", user_id |-> None, turn_number |-> 0, conversation_id |-> NoConv,
     cands |-> <<>>, i |-> 1, pending |-> {}, upserted |-> {}, failed_step |-> None,
     check_failed |-> FALSE]

Init ==
    /\ rows = {}
    /\ ann = {}
    /\ cache = [m \in MemIds |-> {}]
    /\ nextId = 0
    /\ createdFor = [m \in MemIds |-> None]
    /\ convs = [c \in ConvIds |-> {}]
    /\ turns = {}
    /\ nextTurnId = 0
    /\ req = IdleReq
    /\ reqCount = 0
    /\ tasks = [t \in TaskIds |-> NoTask]
    /\ titleTasks = {}
    /\ crudCount = 0
    /\ lastSearch = [user_id |-> None, results |-> <<>>]
    /\ lastOp = NoOp
    /\ now = 0
    /\ embCache = [t \in EmbedTexts |-> {}]
    /\ embOp = NoEmbOp
    /\ embCount = 0
    /\ probe = NoProbe
    /\ caller = None

\* ------------------------------------------------------------ memory store
DEDUP_THRESHOLD == 950000
DEDUP_RECENT_LIMIT == 50

\* the row written by the INSERT of create_memory: the statement names no
\* content_hash column, so the column keeps its default NULL; access_count,
\* decay_score and importance_level keep the defaults of the table; the
\* column context is not written either and keeps '{}': it holds no version
\* (read as 0)
NewRow(id, user_id, mc, source_turn) ==
    [id |-> id, user_id |-> user_id, type |-> mc.type, content |-> mc.content,
     content_hash |-> NULL, source_turn |-> source_turn,
     confidence |-> mc.confidence, last_used_turn |-> NoTurn,
     created_at |-> now, access_count |-> 0, decay_score |-> PPM,
     importance_level |-> "medium", fulfilled |-> FALSE, version |-> 0]

\* unique index idx_memories_user_content_hash on (user_id, content_hash);
\* rows whose content_hash is NULL never collide
UniqueViolation(visible, r) ==
    /\ r.content_hash # NULL
    /\ \E x \in visible : x.id # r.id /\ x.user_id = r.user_id
                          /\ x.content_hash = r.content_hash

\* the vector + metadata upserted to the ANN index
AnnEntry(r) ==
    [id |-> r.id, user_id |-> r.user_id, type |-> r.type, content |-> r.content,
     source_turn |-> r.source_turn, confidence |-> r.confidence]

\* the Memory object as cached / returned
MemoryOf(r) ==
    [user_id |-> r.user_id, type |-> r.type, content |-> r.content,
     source_turn |-> r.source_turn, confidence |-> r.confidence]

AnnUpsert(annIndex, e) == {x \in annIndex : x.id # e.id} \cup {e}

\* get_user_memories(user_id, limit): newest first (ids grow with created_at)
get_user_memories(visible, user_id, limit) ==
    LET mine == {r \in visible : r.user_id = user_id}
    IN {r \in mine : Cardinality({x \in mine : x.id > r.id}) < limit}

\* a duplicate check that fetches no recent memory (limit 0)
CheckDuplicateLimitZero(visible, user_id, content) ==
    \E existing \in get_user_memories(visible, user_id, 0) :
        Cosine(EmbeddingOf(content), EmbeddingOf(existing.content)) >= DEDUP_THRESHOLD

\* _check_duplicate_content when nothing raises
_check_duplicate_content(visible, user_id, content) ==
    \E existing \in get_user_memories(visible, user_id, DEDUP_RECENT_LIMIT) :
        Cosine(EmbeddingOf(content), EmbeddingOf(existing.content)) >= DEDUP_THRESHOLD

\* a duplicate check whose failure reports a duplicate
CheckDuplicateFailClosed(visible, user_id, content, check_failed) ==
    check_failed \/ _check_duplicate_content(visible, user_id, content)

\* _check_duplicate_content with its `except Exception`, which logs a warning
\* and returns False.  check_failed: get_user_memories or the embedder raises.
is_duplicate(visible, user_id, content, check_failed) ==
    IF check_failed THEN FALSE ELSE _check_duplicate_content(visible, user_id, content)

\* get_memory: the cache entry if any, else the row ({} when not found)
get_memory(id) ==
    IF cache[id] # {} THEN cache[id]
    ELSE {MemoryOf(r) : r \in {x \in rows : x.id = id}}

CrudSourceTurns == {5}

\* POST /memories: create_memory in the request's session, committed when the
\* handler returns
CrudCreate(u, mc, st) ==
    /\ crudCount < MaxCrudOps
    /\ nextId < MaxMem
    /\ LET r == NewRow(nextId + 1, u, mc, st)
       IN /\ ~UniqueViolation(rows, r)
          /\ rows' = rows \cup {r}
          /\ ann' = AnnUpsert(ann, AnnEntry(r))
          /\ cache' = [cache EXCEPT ![r.id] = {MemoryOf(r)}]
          /\ createdFor' = [createdFor EXCEPT ![r.id] = u]
    /\ nextId' = nextId + 1
    /\ crudCount' = crudCount + 1
    /\ lastOp' = [NoOp EXCEPT !.op = "create", !.id = nextId + 1, !.user_id = u,
                              !.content = mc.content]
    /\ UNCHANGED <<convs, turns, nextTurnId, req, reqCount, tasks, titleTasks, lastSearch, Side>>

\* the statements of create_memory that may raise, in program order
CreateFailSteps == {"embed", "insert", "upsert"}

\* a create_memory that sent the vector to the ANN index before the INSERT
CrudCreateFailUpsertFirst(u, mc, st, step) ==
    /\ crudCount < MaxCrudOps
    /\ nextId < MaxMem
    /\ ann' = IF step = "embed" THEN ann
              ELSE AnnUpsert(ann, AnnEntry(NewRow(nextId + 1, u, mc, st)))
    /\ crudCount' = crudCount + 1
    /\ lastOp' = [NoOp EXCEPT !.op = "create", !.id = nextId + 1, !.user_id = u,
                              !.content = mc.content, !.failed_step = step]
    /\ UNCHANGED <<rows, cache, nextId, createdFor, convs, turns, nextTurnId, req,
                   reqCount, tasks, titleTasks, lastSearch, Side>>

\* POST /memories when the embedder, the INSERT or the ANN upsert raises:
\* create_memory logs and re-raises, the request's session is rolled back (an
\* INSERT that went through is undone); the upsert comes after the INSERT, so
\* nothing was written to the ANN index
CrudCreateFail(u, mc, st, step) ==
    /\ crudCount < MaxCrudOps
    /\ nextId < MaxMem
    /\ crudCount' = crudCount + 1
    /\ lastOp' = [NoOp EXCEPT !.op = "create", !.id = nextId + 1, !.user_id = u,
                              !.content = mc.content, !.failed_step = step]
    /\ UNCHANGED <<rows, ann, cache, nextId, createdFor, convs, turns, nextTurnId, req,
                   reqCount, tasks, titleTasks, lastSearch, Side>>

UpdatePatches ==
    { [content |-> TxtBangalore, confidence |-> NoConfidence],
      [content |-> NoText, confidence |-> 600000] }

\* PUT /memories/{id}
CrudUpdate(id, patch) ==
    /\ crudCount < MaxCrudOps
    /\ get_memory(id) # {}
    /\ LET memory == CHOOSE m \in get_memory(id) : TRUE
           content == IF patch.content # NoText THEN patch.content ELSE memory.content
           confidence == IF patch.confidence # NoConfidence THEN patch.confidence
                         ELSE memory.confidence
       IN /\ rows' = {IF r.id = id
                      THEN [r EXCEPT !.content = IF patch.content # NoText
                                                 THEN patch.content ELSE r.content,
                                     !.confidence = IF patch.confidence # NoConfidence
                                                    THEN patch.confidence ELSE r.confidence]
                      ELSE r : r \in rows}
          /\ ann' = IF patch.content # NoText
                    THEN AnnUpsert(ann, [id |-> id, user_id |-> memory.user_id,
                                         type |-> memory.type, content |-> content,
                                         source_turn |-> memory.source_turn,
                                         confidence |-> confidence])
                    ELSE ann
    /\ cache' = [cache EXCEPT ![id] = {}]
    /\ crudCount' = crudCount + 1
    /\ lastOp' = [NoOp EXCEPT !.op = "update", !.id = id, !.found = TRUE]
    /\ UNCHANGED <<nextId, createdFor, convs, turns, nextTurnId, req, reqCount, tasks,
                   titleTasks, lastSearch, Side>>

\* a delete_memory that left the cache entry of the memory in place
CrudDeleteKeepCache(id) ==
    /\ crudCount < MaxCrudOps
    /\ get_memory(id) # {}
    /\ rows' = {r \in rows : r.id # id}
    /\ ann' = {e \in ann : e.id # id}
    /\ crudCount' = crudCount + 1
    /\ lastOp' = [NoOp EXCEPT !.op = "delete", !.id = id, !.found = TRUE,
                              !.deleted = {id}]
    /\ UNCHANGED <<cache, nextId, createdFor, convs, turns, nextTurnId, req, reqCount, tasks,
                   titleTasks, lastSearch, Side>>

\* DELETE /memories/{id}: get_memory, DELETE of the row, delete from the ANN
\* index, delete of the cache entry
CrudDelete(id) ==
    /\ crudCount < MaxCrudOps
    /\ get_memory(id) # {}
    /\ rows' = {r \in rows : r.id # id}
    /\ ann' = {e \in ann : e.id # id}
    /\ cache' = [cache EXCEPT ![id] = {}]
    /\ crudCount' = crudCount + 1
    /\ lastOp' = [NoOp EXCEPT !.op = "delete", !.id = id, !.found = TRUE,
                              !.deleted = {id}]
    /\ UNCHANGED <<nextId, createdFor, convs, turns, nextTurnId, req, reqCount, tasks,
                   titleTasks, lastSearch, Side>>

\* DELETE /memories/{id} of an id get_memory does not find: 404
CrudDeleteNotFound(id) ==
    /\ crudCount < MaxCrudOps
    /\ get_memory(id) = {}
    /\ crudCount' = crudCount + 1
    /\ lastOp' = [NoOp EXCEPT !.op = "delete", !.id = id]
    /\ UNCHANGED <<rows, ann, cache, nextId, createdFor, convs, turns, nextTurnId, req,
                   reqCount, tasks, titleTasks, lastSearch, Side>>

\* the statements of delete_memory that may raise, in program order
DeleteFailSteps == {"row", "ann", "cache"}

\* DELETE /memories/{id} when a statement raises: delete_memory logs and
\* re-raises, the request's session is rolled back (the row is back); what
\* was deleted from the ANN index before stays deleted
CrudDeleteFail(id, step) ==
    /\ crudCount < MaxCrudOps
    /\ get_memory(id) # {}
    /\ ann' = IF step = "cache" THEN {e \in ann : e.id # id} ELSE ann
    /\ crudCount' = crudCount + 1
    /\ lastOp' = [NoOp EXCEPT !.op = "delete", !.id = id, !.found = TRUE,
                              !.failed_step = step]
    /\ UNCHANGED <<rows, cache, nextId, createdFor, convs, turns, nextTurnId, req,
                   reqCount, tasks, titleTasks, lastSearch, Side>>

\* GET /memories/{id}: a cache miss that finds the row fills the cache
CrudGet(id) ==
    /\ crudCount < MaxCrudOps
    /\ cache' = [cache EXCEPT ![id] = get_memory(id)]
    /\ crudCount' = crudCount + 1
    /\ lastOp' = [NoOp EXCEPT !.op = "get", !.id = id, !.found = get_memory(id) # {},
                              !.content = IF get_memory(id) = {} THEN NoText
                                          ELSE (CHOOSE m \in get_memory(id) : TRUE).content]
    /\ UNCHANGED <<rows, ann, nextId, createdFor, convs, turns, nextTurnId, req, reqCount,
                   tasks, titleTasks, lastSearch, Side>>

\* POST /memories/search: the query carries no current_turn
SearchEndpoint(u, query_text, failed) ==
    /\ crudCount < MaxCrudOps
    /\ \E out \in search(ann, u, query_text, 10, NoTurn, failed) :
          lastSearch' = [user_id |-> u, results |-> out.results]
    /\ crudCount' = crudCount + 1
    /\ lastOp' = [NoOp EXCEPT !.op = "search", !.user_id = u]
    /\ UNCHANGED <<rows, ann, cache, nextId, createdFor, convs, turns, nextTurnId, req,
                   reqCount, tasks, titleTasks, Side>>

\* top_k: int = Query(10, ge=1, le=100) of the route
TopKQueryValid(top_k) == 1 <= top_k /\ top_k <= 100

\* top_k: int = Field(default=10, ge=1, le=50) of MemorySearchQuery
TopKFieldValid(top_k) == 1 <= top_k /\ top_k <= 50

\* POST /memories/search?top_k=..: a top_k outside 1..100 is rejected by the
\* validation of the query parameter (422) before the handler runs; one
\* outside 1..50 makes the construction of MemorySearchQuery raise; else the
\* search runs
SearchRequest(u, query_text, top_k, failed) ==
    /\ crudCount < MaxCrudOps
    /\ IF ~TopKQueryValid(top_k)
       THEN /\ lastOp' = [NoOp EXCEPT !.op = "search", !.user_id = u, !.top_k = top_k,
                                      !.failed_step = "request_validation"]
            /\ UNCHANGED lastSearch
       ELSE IF ~TopKFieldValid(top_k)
       THEN /\ lastOp' = [NoOp EXCEPT !.op = "search", !.user_id = u, !.top_k = top_k,
                                      !.failed_step = "query_validation"]
            /\ UNCHANGED lastSearch
       ELSE /\ \E out \in search(ann, u, query_text, top_k, NoTurn, failed) :
                  lastSearch' = [user_id |-> u, results |-> out.results]
            /\ lastOp' = [NoOp EXCEPT !.op = "search", !.user_id = u, !.top_k = top_k]
    /\ crudCount' = crudCount + 1
    /\ UNCHANGED <<rows, ann, cache, nextId, createdFor, convs, turns, nextTurnId, req,
                   reqCount, tasks, titleTasks, Side>>

\* ------------------------------------------------------------ score probe
\* matches the ANN index can return: the cosine score (with its rounding
\* above 1) and the metadata read by search
ProbeMatches ==
    [score : {-1000000, -200000, 0, 600000, 750000, 1000000, 1000001},
     confidence : {400000, 500000, 700000, 1000000},
     access_count : {0, 1, 3, 1000},
     source_turn : {0, 5, 7},
     is_conflicted : BOOLEAN]

\* the query types of _detect_query_type and the current_turn of the query
ProbeQueries ==
    {"schedule", "personal", "general"} \X {0, 5, 50, 51, 500, 501, 700, 1000}

\* the body of the loop of search for one match; the scoring keeps no state
\* between two matches, so one match is scored per behaviour
ScoreMatch(m, query_type, current_turn) ==
    /\ probe = NoProbe
    /\ probe' = [match |-> m, query_type |-> query_type, current_turn |-> current_turn,
                 tier |-> TierOf((IF current_turn > 0 THEN current_turn ELSE 0)
                                 - m.source_turn),
                 results |-> ScoredMatch(m, query_type, current_turn, MIN_CONFIDENCE)]
    /\ UNCHANGED <<rows, ann, cache, nextId, createdFor, convs, turns, nextTurnId, req,
                   reqCount, tasks, titleTasks, crudCount, lastSearch, lastOp, now,
                   embCache, embOp, embCount, caller>>

\* --------------------------------------------------------------- lifecycle
ENTITY_TTL_DAYS == 180
memory_decay_days == 90
memory_confidence_threshold == 700000
MIN_DECAY_SCORE == 100000
MaxDay == 181

LifecycleFrame ==
    UNCHANGED <<nextId, createdFor, convs, turns, nextTurnId, req, reqCount, tasks,
                titleTasks, lastSearch, Side>>

\* datetime.utcnow() moves on between two calls, by days: every entry of the
\* memory cache, written with setex and redis_cache_ttl = 3600 seconds, is gone
AdvanceClock(d) ==
    /\ now + d <= MaxDay
    /\ now' = now + d
    /\ cache' = [m \in MemIds |-> {}]
    /\ UNCHANGED <<rows, ann, nextId, createdFor, convs, turns, nextTurnId, req,
                   reqCount, tasks, titleTasks, crudCount, lastSearch, lastOp, embCache,
                   embOp, embCount, probe, caller>>

\* lower(content) LIKE '%my name%' OR '%i am%' OR '%call me%'
NamesTheUser(content) == ContainsAny(Lower(content), {"my name", "i am", "call me"})

\* the migration's UPDATE of importance_level over the rows that hold the
\* column default
MigrateImportance ==
    /\ crudCount < MaxCrudOps
    /\ rows' = {IF r.importance_level # "medium" THEN r
                ELSE [r EXCEPT !.importance_level =
                         IF NamesTheUser(r.content) THEN "critical"
                         ELSE IF r.type \in {"commitment", "instruction"} THEN "high"
                         ELSE IF r.type \in {"preference", "entity"} THEN "medium"
                         ELSE "low"] : r \in rows}
    /\ crudCount' = crudCount + 1
    /\ lastOp' = [NoOp EXCEPT !.op = "migrate"]
    /\ UNCHANGED <<ann, cache>>
    /\ LifecycleFrame

\* expire_old_memories(session, user_id): one DELETE over the rows of type
\* entity older than the TTL, committed; the ANN index and the cache are not
\* touched.  failed: the statement raises, rollback, 0 is returned.
expire_old_memories(user_id, failed) ==
    /\ crudCount < MaxCrudOps
    /\ LET expired == {r \in rows : /\ r.type = "entity"
                                    /\ r.created_at < now - ENTITY_TTL_DAYS
                                    /\ user_id # None => r.user_id = user_id}
       IN /\ rows' = IF failed THEN rows ELSE rows \ expired
          /\ lastOp' = [NoOp EXCEPT !.op = "expire", !.user_id = user_id,
                                    !.failed_step = IF failed THEN "delete" ELSE None,
                                    !.deleted = IF failed THEN {}
                                                ELSE {r.id : r \in expired}]
    /\ crudCount' = crudCount + 1
    /\ UNCHANGED <<ann, cache>>
    /\ LifecycleFrame

\* mark_commitment_fulfilled: its UPDATE sets the column updated_at, which
\* table memories does not have; the statement raises, rollback, False
mark_commitment_fulfilled(id) ==
    /\ crudCount < MaxCrudOps
    /\ crudCount' = crudCount + 1
    /\ lastOp' = [NoOp EXCEPT !.op = "mark_fulfilled", !.id = id, !.failed_step = "update"]
    /\ UNCHANGED <<rows, ann, cache>>
    /\ LifecycleFrame

\* cleanup_fulfilled_commitments: its DELETE filters on the column
\* updated_at; the statement raises, rollback, 0 is returned
cleanup_fulfilled_commitments(user_id) ==
    /\ crudCount < MaxCrudOps
    /\ crudCount' = crudCount + 1
    /\ lastOp' = [NoOp EXCEPT !.op = "cleanup_fulfilled", !.user_id = user_id,
                              !.failed_step = "delete"]
    /\ UNCHANGED <<rows, ann, cache>>
    /\ LifecycleFrame

\* 0.95 ** k in ppm
RECURSIVE Pow95(_)
Pow95(k) == IF k = 0 THEN PPM ELSE (Pow95(k - 1) * 95) \div 100

\* Memory.calculate_decay: min(0.95 ** (age / 100) + min(access_count * 0.1,
\* 0.5), 1.0); a negative age gives a power above 1, cut to 1.0.  The ages
\* of the model are multiples of 100.
calculate_decay(r, current_turn) ==
    LET age == current_turn - r.source_turn
        access_boost == Min2(r.access_count * 100000, 500000)
    IN IF age < 0 THEN PPM
       ELSE Min2(Pow95(age \div 100) + access_boost, PPM)

\* the memories apply_decay counts: the decay score moved by more than 0.05
DecayChanged(user_id, current_turn) ==
    {r \in get_user_memories(rows, user_id, 1000) :
        LET d == r.decay_score - calculate_decay(r, current_turn)
        IN (IF d < 0 THEN 0 - d ELSE d) > 50000}

\* MemoryManager.apply_decay: computes the new decay score of each memory on
\* the Memory object and counts those that moved by more than 0.05; nothing
\* is written to the store ("In production, batch update these")
apply_decay(user_id, current_turn) ==
    /\ crudCount < MaxCrudOps
    /\ crudCount' = crudCount + 1
    /\ lastOp' = [NoOp EXCEPT !.op = "decay", !.user_id = user_id,
                              !.current_turn = current_turn,
                              !.updated_count =
                                  Cardinality(DecayChanged(user_id, current_turn))]
    /\ UNCHANGED <<rows, ann, cache>>
    /\ LifecycleFrame

\* the memories cleanup_old_memories decides to delete
ShouldDelete(user_id, max_age_days) ==
    {r \in get_user_memories(rows, user_id, 1000) :
        \/ r.created_at < now - max_age_days /\ r.decay_score < MIN_DECAY_SCORE
        \/ r.access_count = 0 /\ r.confidence < memory_confidence_threshold}

\* MemoryManager.cleanup_old_memories: delete_memory for each memory to
\* delete.  failed: get_user_memories raises and nothing is deleted.
cleanup_old_memories(user_id, failed) ==
    /\ crudCount < MaxCrudOps
    /\ LET gone == IF failed THEN {}
                   ELSE {r.id : r \in ShouldDelete(user_id, memory_decay_days)}
       IN /\ rows' = {r \in rows : r.id \notin gone}
          /\ ann' = {e \in ann : e.id \notin gone}
          /\ cache' = [m \in MemIds |-> IF m \in gone THEN {} ELSE cache[m]]
          /\ lastOp' = [NoOp EXCEPT !.op = "cleanup_old", !.user_id = user_id,
                                    !.failed_step = IF failed THEN "list" ELSE None,
                                    !.deleted = gone]
    /\ crudCount' = crudCount + 1
    /\ LifecycleFrame

\* ---------------------------------------------------------------- embedder
\* EmbeddingGenerator with the OpenAI provider and a Redis cache.  A cached
\* value is the string that was written: its format and the numbers in it.
MaxEmbedCalls == 3

\* json.dumps(embedding), written by generate
JsonDumps(v) == [format |-> "json", values |-> v]

\* ",".join(str(x) for x in embedding), written by generate_batch
CsvJoin(v) == [format |-> "csv", values |-> v]

\* json.loads(cached): the vector, or nothing when the string is no JSON
\* value ("3,4" raises JSONDecodeError)
JsonLoads(c) == IF c.format = "json" THEN {c.values} ELSE {}

\* [float(x) for x in cached.decode().split(",")]: the vector, or nothing
\* when a piece is no number (float("[3") raises ValueError)
CsvParse(c) == IF c.format = "csv" THEN {c.values} ELSE {}

\* the texts that have an entry in the cache
Cached == {t \in EmbedTexts : embCache[t] # {}}

EmbedFrame ==
    UNCHANGED <<rows, ann, cache, nextId, createdFor, convs, turns, nextTurnId, req,
                reqCount, tasks, titleTasks, crudCount, lastSearch, lastOp, now, probe,
                caller>>

\* generate(text).  cache_ok: Redis answers; a read or write error is logged
\* and the call goes on without the cache.
generate(text, cache_ok) ==
    /\ embCount < MaxEmbedCalls
    /\ LET read == IF cache_ok THEN UNION {JsonLoads(c) : c \in embCache[text]} ELSE {}
       IN /\ embOp' = [op |-> "generate", texts |-> <<text>>, cached_before |-> Cached,
                       cache_ok |-> cache_ok,
                       provider_texts |-> IF read # {} THEN <<>> ELSE <<text>>,
                       returned |-> IF read # {} THEN <<CHOOSE v \in read : TRUE>>
                                    ELSE <<EmbeddingOf(text)>>]
          /\ embCache' = IF read = {} /\ cache_ok
                         THEN [embCache EXCEPT ![text] = {JsonDumps(EmbeddingOf(text))}]
                         ELSE embCache
    /\ embCount' = embCount + 1
    /\ EmbedFrame

\* the texts of a batch whose cache read gives no vector, in batch order
RECURSIVE Uncached(_, _)
Uncached(texts, cache_ok) ==
    IF texts = <<>> THEN <<>>
    ELSE LET read == IF cache_ok THEN UNION {CsvParse(c) : c \in embCache[Head(texts)]}
                     ELSE {}
         IN (IF read = {} THEN <<Head(texts)>> ELSE <<>>) \o Uncached(Tail(texts), cache_ok)

\* generate_batch(texts) for a list that fits one batch: one provider call
\* for the texts not read from the cache, whose vectors are cached
generate_batch(texts, cache_ok) ==
    /\ embCount < MaxEmbedCalls
    /\ LET uncached == Uncached(texts, cache_ok)
       IN /\ embOp' = [op |-> "generate_batch", texts |-> texts, cached_before |-> Cached,
                       cache_ok |-> cache_ok, provider_texts |-> uncached,
                       returned |-> [i \in 1..Len(texts) |-> EmbeddingOf(texts[i])]]
          /\ embCache' = [t \in EmbedTexts |->
                            IF cache_ok /\ t \in Range(uncached)
                            THEN {CsvJoin(EmbeddingOf(t))} ELSE embCache[t]]
    /\ embCount' = embCount + 1
    /\ EmbedFrame

\* the TTL of a cache entry elapses
EmbExpire(text) ==
    /\ embCache[text] # {}
    /\ embCache' = [embCache EXCEPT ![text] = {}]
    /\ UNCHANGED <<embOp, embCount>>
    /\ EmbedFrame

\* ------------------------------------------- detached extraction task
\* _extract_and_store_memories_independent runs in its own session: its
\* inserts are pending until session.commit() and are dropped when an
\* exception leaves the `async with` block.
TaskVisible(t) == rows \cup tasks[t].pending

TaskUnchanged ==
    UNCHANGED <<convs, turns, nextTurnId, req, reqCount, titleTasks, crudCount, lastSearch, lastOp, Side>>

\* a task that ran in the session of its turn: the rollback would take the
\* turn row with it
TaskFailSharedSession(t, step) ==
    /\ tasks' = [tasks EXCEPT ![t].pc = "failed", ![t].pending = {},
                              ![t].failed_step = step]
    /\ turns' = {r \in turns : ~(r.conversation_id = tasks[t].conversation_id
                                  /\ r.turn_number = tasks[t].turn_number)}
    /\ UNCHANGED <<rows, ann, cache, nextId, createdFor>>
    /\ UNCHANGED <<convs, nextTurnId, req, reqCount, titleTasks, crudCount, lastSearch, lastOp, Side>>

\* an exception leaves the `async with` block (the session rolls back its
\* pending inserts) and is logged by the task's `except Exception`
TaskFail(t, step) ==
    /\ tasks' = [tasks EXCEPT ![t].pc = "failed", ![t].pending = {},
                              ![t].failed_step = step]
    /\ UNCHANGED <<rows, ann, cache, nextId, createdFor>>
    /\ TaskUnchanged

\* extract_from_turn (an extraction failure yields no candidate), then
\* get_user_memories(limit=200)
TaskExtract(t, cl) ==
    /\ tasks[t].pc = "extract"
    /\ tasks' = [tasks EXCEPT ![t].pc = "loop", ![t].cands = cl, ![t].i = 1]
    /\ UNCHANGED <<rows, ann, cache, nextId, createdFor>>
    /\ TaskUnchanged

\* get_user_memories raises
TaskExtractFail(t) ==
    /\ tasks[t].pc = "extract"
    /\ TaskFail(t, "extract")

TaskAtCandidate(t) == tasks[t].pc = "loop" /\ tasks[t].i <= Len(tasks[t].cands)

CurrentCandidate(t) == tasks[t].cands[tasks[t].i]

\* canonicalizer.resolve_preference raises
TaskCanonRaise(t) ==
    /\ TaskAtCandidate(t)
    /\ resolve_preference_raises(CurrentCandidate(t).type, CurrentCandidate(t).content)
    /\ TaskFail(t, "canonicalize")

\* the deduplicator reports a duplicate: the candidate is skipped
TaskSkipDuplicate(t, check_failed) ==
    /\ TaskAtCandidate(t)
    /\ ~resolve_preference_raises(CurrentCandidate(t).type, CurrentCandidate(t).content)
    /\ is_duplicate(TaskVisible(t), tasks[t].user_id, CurrentCandidate(t).content,
                    check_failed)
    /\ tasks' = [tasks EXCEPT ![t].i = @ + 1, ![t].check_failed = check_failed]
    /\ UNCHANGED <<rows, ann, cache, nextId, createdFor>>
    /\ TaskUnchanged

\* no duplicate reported (or the check itself failed: fail-open), create_memory
TaskCreate(t, check_failed) ==
    /\ TaskAtCandidate(t)
    /\ ~resolve_preference_raises(CurrentCandidate(t).type, CurrentCandidate(t).content)
    /\ ~is_duplicate(TaskVisible(t), tasks[t].user_id, CurrentCandidate(t).content,
                     check_failed)
    /\ nextId < MaxMem
    /\ LET r == NewRow(nextId + 1, tasks[t].user_id, CurrentCandidate(t),
                       tasks[t].turn_number)
       IN /\ ~UniqueViolation(TaskVisible(t), r)
          /\ tasks' = [tasks EXCEPT ![t].pending = @ \cup {r}, ![t].i = @ + 1,
                                    ![t].upserted = @ \cup {r.id},
                                    ![t].check_failed = check_failed]
          /\ ann' = AnnUpsert(ann, AnnEntry(r))
          /\ cache' = [cache EXCEPT ![r.id] = {MemoryOf(r)}]
          /\ createdFor' = [createdFor EXCEPT ![r.id] = r.user_id]
    /\ nextId' = nextId + 1
    /\ UNCHANGED rows
    /\ TaskUnchanged

\* create_memory raises (embedder, INSERT or ANN upsert)
TaskCreateFail(t) ==
    /\ TaskAtCandidate(t)
    /\ ~resolve_preference_raises(CurrentCandidate(t).type, CurrentCandidate(t).content)
    /\ TaskFail(t, "create")

\* session.commit() after the loop
TaskCommit(t) ==
    /\ tasks[t].pc = "loop"
    /\ tasks[t].i > Len(tasks[t].cands)
    /\ rows' = rows \cup tasks[t].pending
    /\ tasks' = [tasks EXCEPT ![t].pc = "done", ![t].pending = {}]
    /\ UNCHANGED <<ann, cache, nextId, createdFor>>
    /\ TaskUnchanged

\* session.commit() raises
TaskCommitFail(t) ==
    /\ tasks[t].pc = "loop"
    /\ tasks[t].i > Len(tasks[t].cands)
    /\ TaskFail(t, "commit")

\* ------------------------------------------------ process_conversation
\* the request shapes explored: (turn_number, message, include_memories)
RequestShapes ==
    { <<0, MsgHi, TRUE>>, <<5, MsgHi, TRUE>>, <<5, MsgCalendar, TRUE>>,
      <<7, MsgEverything, TRUE>>, <<7, MsgExplain, TRUE>>, <<5, MsgWhere, TRUE>>,
      <<7, MsgWeather, TRUE>>,
      <<7, MsgWhere, FALSE>> }

ReqUnchangedStore == UNCHANGED <<rows, ann, cache, nextId, createdFor, crudCount, lastSearch, lastOp, Side>>

ReqError(step) ==
    req' = [req EXCEPT !.pc = "error", !.status = 500, !.failed_step = step]

FreshConv ==
    CHOOSE c \in ConvIds : convs[c] = {} /\ \A d \in ConvIds : convs[d] = {} => c <= d

OwnedBy(cid, u) == \E c \in convs[cid] : c.user_id = u

\* entry of the handler: uuid4() for turn_id, then create the conversation
\* (conversation_id None) or check that it exists and belongs to the user
StartTurn(u, cid, shape) ==
    /\ req.pc \in {"idle", "done", "error"}
    /\ reqCount < MaxTurnReqs
    /\ cid # NoConv => OwnedBy(cid, u)
    /\ LET c == IF cid = NoConv THEN FreshConv ELSE cid
       IN /\ req' = [IdleReq EXCEPT !.pc = "retrieve", !.user_id = u,
                                    !.conversation_id = c, !.turn_number = shape[1],
                                    !.message = shape[2], !.include_memories = shape[3],
                                    !.turn_id = nextTurnId + 1]
          /\ convs' = IF cid = NoConv
                      THEN [convs EXCEPT ![c] = {[user_id |-> u, turn_count |-> 0]}]
                      ELSE convs
    /\ nextTurnId' = nextTurnId + 1
    /\ reqCount' = reqCount + 1
    /\ UNCHANGED <<turns, tasks, titleTasks>>
    /\ ReqUnchangedStore

\* the conversation is missing or owned by another user: HTTPException(404)
\* is raised inside the handler's try block, whose `except Exception` turns it
\* into HTTPException(500)
StartTurnNotFound(u, cid, shape) ==
    /\ req.pc \in {"idle", "done", "error"}
    /\ reqCount < MaxTurnReqs
    /\ cid # NoConv
    /\ ~OwnedBy(cid, u)
    /\ req' = [IdleReq EXCEPT !.pc = "error", !.user_id = u, !.conversation_id = cid,
                              !.turn_number = shape[1], !.message = shape[2],
                              !.include_memories = shape[3], !.turn_id = nextTurnId + 1,
                              !.status = 500, !.failed_step = "resolve"]
    /\ nextTurnId' = nextTurnId + 1
    /\ reqCount' = reqCount + 1
    /\ UNCHANGED <<convs, turns, tasks, titleTasks>>
    /\ ReqUnchangedStore

\* Step 1 with include_memories: choose the branch and search.  failed: the
\* embedder or the ANN query raised inside search, which returns [].
Retrieve(failed) ==
    /\ req.pc = "retrieve"
    /\ req.include_memories
    /\ LET branch == RetrievalBranch(req.turn_number, req.message)
           query == BranchQuery(branch, req.message)
           top_k == BranchTopK(branch, req.message)
       IN \E out \in search(ann, req.user_id, query, top_k, req.turn_number, failed) :
             IF out.raised
             THEN req' = [req EXCEPT !.pc = "error", !.status = 500,
                                     !.failed_step = "retrieve",
                                     !.branch = branch, !.retrieval_failed = failed]
             ELSE IF branch = "schedule" /\ ScheduleFilterRaises(out.results)
             THEN req' = [req EXCEPT !.pc = "error", !.status = 500,
                                     !.failed_step = "schedule_filter",
                                     !.branch = branch, !.retrieval_failed = failed,
                                     !.search_returned = out.results]
             ELSE req' = [req EXCEPT !.pc = "compose", !.branch = branch,
                                     !.retrieval_failed = failed,
                                     !.search_returned = out.results,
                                     !.search_results = out.results,
                                     !.memories_used = Ids(out.results)]
    /\ UNCHANGED <<convs, turns, nextTurnId, reqCount, tasks, titleTasks>>
    /\ ReqUnchangedStore

\* Step 1 with include_memories false
RetrieveSkipped ==
    /\ req.pc = "retrieve"
    /\ ~req.include_memories
    /\ req' = [req EXCEPT !.pc = "compose"]
    /\ UNCHANGED <<convs, turns, nextTurnId, reqCount, tasks, titleTasks>>
    /\ ReqUnchangedStore

\* a tail reader that does not filter on the conversation
RecentTurnsAnyConversation(stored, conversation_id, limit, before_turn) ==
    LET matching == {t \in stored : t.turn_number < before_turn}
        n == Min2(limit, Cardinality(matching))
        picks == {M \in SUBSET matching :
                     /\ Cardinality(M) = n
                     /\ \A a \in M, b \in matching \ M : a.turn_number >= b.turn_number}
    IN UNION {{[i \in 1..n |-> q[n + 1 - i]] :
                  q \in {o \in [1..n -> M] :
                            /\ \A i, j \in 1..n : i # j => o[i] # o[j]
                            /\ \A i, j \in 1..n :
                                  i < j => o[i].turn_number >= o[j].turn_number}}
              : M \in picks}

\* ConversationStorage.get_recent_turns(conversation_id, limit, before_turn):
\* the rows of the conversation with turn_number < before_turn, ORDER BY
\* turn_number DESC LIMIT limit (rows of equal turn_number in any order),
\* reversed
get_recent_turns(stored, conversation_id, limit, before_turn) ==
    LET matching == {t \in stored : /\ t.conversation_id = conversation_id
                                     /\ t.turn_number < before_turn}
        n == Min2(limit, Cardinality(matching))
        picks == {M \in SUBSET matching :
                     /\ Cardinality(M) = n
                     /\ \A a \in M, b \in matching \ M : a.turn_number >= b.turn_number}
    IN UNION {{[i \in 1..n |-> q[n + 1 - i]] :
                  q \in {o \in [1..n -> M] :
                            /\ \A i, j \in 1..n : i # j => o[i] # o[j]
                            /\ \A i, j \in 1..n :
                                  i < j => o[i].turn_number >= o[j].turn_number}}
              : M \in picks}

\* sorted(recent_turns, key=lambda x: x.turn_number): a stable sort
SortedByTurnNumber(seq) ==
    LET n == Len(seq)
        rank(i) == 1 + Cardinality({j \in 1..n :
                          \/ seq[j].turn_number < seq[i].turn_number
                          \/ seq[j].turn_number = seq[i].turn_number /\ j < i})
    IN [k \in 1..n |-> seq[CHOOSE i \in 1..n : rank(i) = k]]

\* Step 2: user_name from the results, silence mode, system prompt; then the
\* messages for the LLM: the system prompt, the turns of recent_turns, the new
\* message.  history_failed: get_recent_turns raised and the handler goes on
\* without history.
ComposeStep(recent_turns, history_failed) ==
    /\ req.pc = "compose"
    /\ LET greeting == is_greeting(req.message)
           user_name == IF greeting /\ req.search_results # <<>>
                        THEN UserNameFrom(req.search_results) ELSE NoText
           silence == SilenceMode(req.search_results, req.message)
           kept == IF silence THEN <<>> ELSE req.search_results
           context == IF silence THEN [kind |-> "empty", ids |-> <<>>]
                      ELSE MemoryContext(req.include_memories, req.search_results,
                                         req.message)
       IN req' = [req EXCEPT !.pc = "generate",
                             !.silence_mode = silence,
                             !.search_results = kept,
                             !.history = recent_turns,
                             !.history_failed = history_failed,
                             !.prompt = get_system_prompt(
                                 Len(kept), context, silence, greeting,
                                 is_schedule_prompt(req.message),
                                 is_comprehensive(req.message),
                                 is_knowledge_query(req.message), user_name)]
    /\ UNCHANGED <<convs, turns, nextTurnId, reqCount, tasks, titleTasks>>
    /\ ReqUnchangedStore

Compose ==
    /\ req.pc = "compose"
    /\ \E recent_turns \in get_recent_turns(turns, req.conversation_id, 5, req.turn_number) :
          ComposeStep(SortedByTurnNumber(recent_turns), FALSE)

ComposeHistoryFail ==
    /\ req.pc = "compose"
    /\ ComposeStep(<<>>, TRUE)

\* Step 3: the LLM call returns
Generate ==
    /\ req.pc = "generate"
    /\ req' = [req EXCEPT !.pc = "persist", !.llm_called = TRUE]
    /\ UNCHANGED <<convs, turns, nextTurnId, reqCount, tasks, titleTasks>>
    /\ ReqUnchangedStore

\* an LLM failure answered with a fallback text would go on to persist
GenerateFailFallback ==
    /\ req.pc = "generate"
    /\ req' = [req EXCEPT !.pc = "persist", !.failed_step = "generate",
                          !.llm_called = TRUE]
    /\ UNCHANGED <<convs, turns, nextTurnId, reqCount, tasks, titleTasks>>
    /\ ReqUnchangedStore

\* Step 3: the LLM call raises
GenerateFail ==
    /\ req.pc = "generate"
    /\ req' = [req EXCEPT !.pc = "error", !.status = 500, !.failed_step = "generate",
                          !.llm_called = TRUE]
    /\ UNCHANGED <<convs, turns, nextTurnId, reqCount, tasks, titleTasks>>
    /\ ReqUnchangedStore

\* Step 4: store_turn inserts the row under its own uuid4() and commits
StoreTurn ==
    /\ req.pc = "persist"
    /\ turns' = turns \cup {[turn_id |-> nextTurnId + 1,
                             conversation_id |-> req.conversation_id,
                             user_id |-> req.user_id,
                             turn_number |-> req.turn_number,
                             memories_retrieved |-> req.memories_used]}
    /\ nextTurnId' = nextTurnId + 1
    /\ req' = [req EXCEPT !.pc = "increment", !.stored_turn_id = nextTurnId + 1]
    /\ UNCHANGED <<convs, reqCount, tasks, titleTasks>>
    /\ ReqUnchangedStore

\* Step 4: store_turn raises
StoreTurnFail ==
    /\ req.pc = "persist"
    /\ ReqError("store_turn")
    /\ UNCHANGED <<convs, turns, nextTurnId, reqCount, tasks, titleTasks>>
    /\ ReqUnchangedStore

\* increment_turn_count commits; then Step 5 creates the detached extraction
\* task and Step 6 the title task of a turn 0
IncrementAndDetach ==
    /\ req.pc = "increment"
    /\ convs' = [convs EXCEPT ![req.conversation_id] =
                    {[c EXCEPT !.turn_count = @ + 1] : c \in @}]
    /\ tasks' = [tasks EXCEPT ![reqCount] =
                    [NoTask EXCEPT !.pc = "extract", !.user_id = req.user_id,
                                   !.turn_number = req.turn_number,
                                   !.conversation_id = req.conversation_id]]
    /\ titleTasks' = IF req.turn_number = 0
                     THEN titleTasks \cup {req.conversation_id} ELSE titleTasks
    /\ req' = [req EXCEPT !.pc = "respond", !.incremented = TRUE, !.task = reqCount]
    /\ UNCHANGED <<turns, nextTurnId, reqCount>>
    /\ ReqUnchangedStore

\* a swallowed increment failure would leave Step 5 and Step 6 to run
IncrementFailSwallowed ==
    /\ req.pc = "increment"
    /\ tasks' = [tasks EXCEPT ![reqCount] =
                    [NoTask EXCEPT !.pc = "extract", !.user_id = req.user_id,
                                   !.turn_number = req.turn_number,
                                   !.conversation_id = req.conversation_id]]
    /\ titleTasks' = IF req.turn_number = 0
                     THEN titleTasks \cup {req.conversation_id} ELSE titleTasks
    /\ req' = [req EXCEPT !.pc = "error", !.status = 500, !.failed_step = "increment",
                          !.task = reqCount]
    /\ UNCHANGED <<convs, turns, nextTurnId, reqCount>>
    /\ ReqUnchangedStore

\* increment_turn_count raises
IncrementFail ==
    /\ req.pc = "increment"
    /\ ReqError("increment")
    /\ UNCHANGED <<convs, turns, nextTurnId, reqCount, tasks, titleTasks>>
    /\ ReqUnchangedStore

\* active_memories from search_results[:10], the last_used_turn update (its
\* failure is swallowed) and the response
Respond(update_ok) ==
    /\ req.pc = "respond"
    /\ LET active == Ids(Prefix(req.search_results, 10))
       IN /\ rows' = IF update_ok
                     THEN {IF r.id \in Range(active)
                           THEN [r EXCEPT !.last_used_turn = req.turn_number]
                           ELSE r : r \in rows}
                     ELSE rows
          /\ req' = [req EXCEPT !.pc = "done", !.status = 200,
                                !.response = [turn_id |-> req.turn_id,
                                              conversation_id |-> req.conversation_id,
                                              turn_number |-> req.turn_number,
                                              active_memories |-> active,
                                              memories_used |-> req.memories_used]]
    /\ UNCHANGED <<ann, cache, nextId, createdFor, crudCount, lastSearch, lastOp, Side, convs, turns,
                   nextTurnId, reqCount, tasks, titleTasks>>

\* ---------------------------------------------------------- specifications
\* The memory endpoints alone: explicit create, update, delete, get, search.
NextStore ==
    \/ \E u \in Users, mc \in CrudCandidates, st \in CrudSourceTurns : CrudCreate(u, mc, st)
    \/ \E u \in Users, mc \in CrudCandidates, st \in CrudSourceTurns, step \in CreateFailSteps :
          CrudCreateFail(u, mc, st, step)
    \/ \E id \in MemIds, patch \in UpdatePatches : CrudUpdate(id, patch)
    \/ \E id \in MemIds : CrudDelete(id)
    \/ \E id \in MemIds : CrudDeleteNotFound(id)
    \/ \E id \in MemIds, step \in DeleteFailSteps : CrudDeleteFail(id, step)
    \/ \E id \in MemIds : CrudGet(id)
    \/ \E u \in Users, failed \in BOOLEAN : SearchEndpoint(u, MsgWhere, failed)

SpecStore == Init /\ [][NextStore]_vars

\* Turns of one user without retrieval, and their detached extraction tasks
\* in every interleaving.
PipelineShapes == { <<5, MsgWhere, FALSE>>, <<7, MsgWhere, FALSE>> }

NextPipeline ==
    \/ \E shape \in PipelineShapes : StartTurn("u1", NoConv, shape)
    \/ RetrieveSkipped
    \/ Compose
    \/ Generate
    \/ GenerateFail
    \/ StoreTurn
    \/ StoreTurnFail
    \/ IncrementAndDetach
    \/ IncrementFail
    \/ Respond(TRUE)
    \/ \E t \in TaskIds, cl \in CandidateLists : TaskExtract(t, cl)
    \/ \E t \in TaskIds : TaskExtractFail(t)
    \/ \E t \in TaskIds : TaskCanonRaise(t)
    \/ \E t \in TaskIds, check_failed \in BOOLEAN : TaskSkipDuplicate(t, check_failed)
    \/ \E t \in TaskIds, check_failed \in BOOLEAN : TaskCreate(t, check_failed)
    \/ \E t \in TaskIds : TaskCreateFail(t)
    \/ \E t \in TaskIds : TaskCommit(t)
    \/ \E t \in TaskIds : TaskCommitFail(t)

SpecPipeline == Init /\ [][NextPipeline]_vars

\* The turn orchestrator over a store filled by explicit creates that precede
\* the turns.
SeedCandidates == {CandName, CandBangalore}

NextTurn ==
    \/ /\ reqCount = 0
       /\ crudCount < MaxSeeds
       /\ \E u \in Users, mc \in SeedCandidates, st \in CrudSourceTurns : CrudCreate(u, mc, st)
    \/ /\ reqCount < MaxOrchestratedTurns
       /\ \E u \in Users, cid \in ConvIds \cup {NoConv}, shape \in RequestShapes :
             StartTurn(u, cid, shape)
    \/ /\ reqCount < MaxOrchestratedTurns
       /\ \E u \in Users, cid \in ConvIds \cup {NoConv}, shape \in RequestShapes :
             StartTurnNotFound(u, cid, shape)
    \/ \E failed \in BOOLEAN : Retrieve(failed)
    \/ RetrieveSkipped
    \/ Compose
    \/ Generate
    \/ GenerateFail
    \/ StoreTurn
    \/ StoreTurnFail
    \/ IncrementAndDetach
    \/ IncrementFail
    \/ \E update_ok \in BOOLEAN : Respond(update_ok)

SpecTurn == Init /\ [][NextTurn]_vars

\* Memories of one user created by explicit calls, the lifecycle operations
\* on them as time passes, and a turn that retrieves.
LifecycleCandidates == {CandFriend, CandNickname, CandMaybeTea, CandDentist}

\* values of current_turn handed to apply_decay (source_turn is 5)
DecayTurns == {5, 205}

NextLifecycle ==
    \/ /\ reqCount = 0
       /\ \E mc \in LifecycleCandidates, st \in CrudSourceTurns : CrudCreate("u1", mc, st)
    \/ \E d \in {91, 181} : AdvanceClock(d)
    \/ MigrateImportance
    \/ \E u \in {None, "u1"}, failed \in BOOLEAN : expire_old_memories(u, failed)
    \/ \E id \in MemIds : mark_commitment_fulfilled(id)
    \/ \E u \in {None, "u1"} : cleanup_fulfilled_commitments(u)
    \/ \E current_turn \in DecayTurns : apply_decay("u1", current_turn)
    \/ \E failed \in BOOLEAN : cleanup_old_memories("u1", failed)
    \/ \E id \in MemIds : CrudGet(id)
    \/ /\ reqCount < MaxOrchestratedTurns
       /\ StartTurn("u1", NoConv, <<5, MsgWhere, TRUE>>)
    \/ Retrieve(FALSE)
    \/ Compose
    \/ Generate
    \/ StoreTurn
    \/ IncrementAndDetach
    \/ Respond(TRUE)

SpecLifecycle == Init /\ [][NextLifecycle]_vars

\* The scoring of single matches by search.
NextScore ==
    \E m \in ProbeMatches, q \in ProbeQueries : ScoreMatch(m, q[1], q[2])

SpecScore == Init /\ [][NextScore]_vars

\* The embedder and its cache under single and batch calls.
EmbedBatches == {<<TxtBangalore>>, <<TxtName, TxtBangalore>>}

NextEmbed ==
    \/ \E t \in EmbedTexts, cache_ok \in BOOLEAN : generate(t, cache_ok)
    \/ \E b \in EmbedBatches, cache_ok \in BOOLEAN : generate_batch(b, cache_ok)
    \/ \E t \in EmbedTexts : EmbExpire(t)

SpecEmbed == Init /\ [][NextEmbed]_vars

\* Turns of one user whose extraction tasks store memories that later turns,
\* of the same or of another conversation, retrieve.
RecallShapes == { <<7, MsgWhere, FALSE>>, <<5, MsgWhere, TRUE>> }

RecallCandidateLists == { <<>>, <<CandBangalore>> }

NextRecall ==
    \/ \E cid \in ConvIds \cup {NoConv}, shape \in RecallShapes : StartTurn("u1", cid, shape)
    \/ Retrieve(FALSE)
    \/ RetrieveSkipped
    \/ Compose
    \/ Generate
    \/ StoreTurn
    \/ IncrementAndDetach
    \/ Respond(TRUE)
    \/ \E t \in TaskIds, cl \in RecallCandidateLists : TaskExtract(t, cl)
    \/ \E t \in TaskIds, check_failed \in BOOLEAN : TaskSkipDuplicate(t, check_failed)
    \/ \E t \in TaskIds : TaskCreate(t, FALSE)
    \/ \E t \in TaskIds : TaskCommit(t)

SpecRecall == Init /\ [][NextRecall]_vars

\* ------------------------------------------------------------------ claims
\* the turn row written by the call in flight
StoredRows == {r \in turns : r.turn_id = req.stored_turn_id}

\* the call in flight has passed Step 2
Composed == req.pc \in {"generate", "persist", "increment", "respond", "done"}

LiveWithHash(u, h) == {r \in rows : r.user_id = u /\ hash_content(r.content) = h}

\* C1: no two live memories of one user have the same content_hash (the hash
\* of the lowercased, trimmed content), after any sequence of creates,
\* updates and deletes.
C1_UniqueContentHash ==
    \A a, b \in rows :
        (a.id # b.id /\ a.user_id = b.user_id)
            => hash_content(a.content) # hash_content(b.content)

\* C2: when the extraction tasks of two turns of one user both yielded the
\* same candidate content and both have completed, exactly one memory with
\* that content exists for the user.
C2_OneMemoryAfterBothTasks ==
    \A t1, t2 \in TaskIds :
        (/\ t1 # t2
         /\ tasks[t1].pc = "done" /\ tasks[t2].pc = "done"
         /\ tasks[t1].user_id = tasks[t2].user_id
         /\ CandBangalore \in Range(tasks[t1].cands)
         /\ CandBangalore \in Range(tasks[t2].cands))
            => Cardinality(LiveWithHash(tasks[t1].user_id,
                                        hash_content(CandBangalore.content))) = 1

\* a task that ended without a failure of the extractor, the store or the
\* commit, and whose candidates held a preference with a canonical key
SubmittedKeyed(t) ==
    /\ tasks[t].pc \in {"done", "failed"}
    /\ tasks[t].failed_step \in {None, "canonicalize"}
    /\ \E i \in 1..Len(tasks[t].cands) :
          /\ tasks[t].cands[i].type = "preference"
          /\ _detect_canonical_key(tasks[t].cands[i].content) = "call_time"

\* C3: once N >= 1 preference statements of one user with the same canonical
\* key have gone through the extraction pipeline, exactly one memory exists
\* for that key.
C3_OneCanonicalMemory ==
    \A t \in TaskIds :
        SubmittedKeyed(t)
            => Cardinality({r \in rows : /\ r.user_id = tasks[t].user_id
                                         /\ r.type = "preference"
                                         /\ _detect_canonical_key(r.content) = "call_time"}) = 1

\* C4: every result a search for user u returns is a memory that was created
\* for u, whatever memories other users hold.
C4_SearchIsolation ==
    \A i \in 1..Len(req.search_returned) :
        createdFor[req.search_returned[i].memory_id] = req.user_id

C4_Witness ==
    /\ req.search_returned # <<>>
    /\ \E e \in ann : e.user_id # req.user_id

\* C5: after process_conversation has returned successfully, a turn row exists
\* with the request's turn_number whose memories_retrieved equals the ids of
\* the active memories of the response.
C5_RowMatchesActiveMemories ==
    (req.pc = "done" /\ req.status = 200)
        => \E r \in StoredRows :
              /\ r.conversation_id = req.conversation_id
              /\ r.turn_number = req.turn_number
              /\ r.memories_retrieved = req.response.active_memories

\* C6: when the LLM call fails the client gets an error, no turn row is
\* inserted, the conversation's turn_count is unchanged and no detached task
\* is scheduled.
C6_LlmFailure ==
    /\ [][(req.pc = "generate" /\ req'.pc = "error")
            => /\ req'.status = 500
               /\ turns' = turns
               /\ convs' = convs
               /\ tasks' = tasks
               /\ titleTasks' = titleTasks]_vars
    /\ [](req.failed_step = "generate"
            => /\ req.pc = "error"
               /\ req.stored_turn_id = 0
               /\ ~req.incremented
               /\ req.task = 0)

C6_Witness ==
    /\ req.pc = "error"
    /\ req.failed_step = "generate"
    /\ req.llm_called

\* C7: when the turn insert or the turn_count increment raises, the client
\* gets an error and neither the extraction task nor the title task of that
\* turn is scheduled.
C7_PersistFailure ==
    /\ [][(req.pc \in {"persist", "increment"} /\ req'.pc = "error")
            => /\ req'.status = 500
               /\ tasks' = tasks
               /\ titleTasks' = titleTasks]_vars
    /\ [](req.failed_step \in {"store_turn", "increment"}
            => /\ req.pc = "error"
               /\ req.task = 0
               /\ tasks[reqCount].pc = "none")

C7_Witness ==
    /\ req.pc = "error"
    /\ req.failed_step = "increment"
    /\ StoredRows # {}

\* the turn row of the turn that detached task t
TurnRowsOf(t) ==
    {r \in turns : /\ r.conversation_id = tasks[t].conversation_id
                   /\ r.turn_number = tasks[t].turn_number
                   /\ r.user_id = tasks[t].user_id}

\* C8: a failure of the detached extraction task changes neither what the
\* client got nor the turn rows; the turn of every detached task stays
\* persisted whether none or some of its memories were stored.
C8_TaskFailureContained ==
    /\ [][\A t \in TaskIds :
            (tasks[t].pc # "failed" /\ tasks'[t].pc = "failed")
                => (turns' = turns /\ req' = req /\ convs' = convs)]_vars
    /\ [](\A t \in TaskIds : tasks[t].pc # "none" => TurnRowsOf(t) # {})

C8_Witness ==
    \E t \in TaskIds :
        /\ tasks[t].pc = "failed"
        /\ tasks[t].failed_step = "commit"
        /\ tasks[t].upserted # {}
        /\ TurnRowsOf(t) # {}

\* C9: when the embedder or the ANN index raises during search, the turn
\* goes on with an empty memory set: the LLM is called, the turn row carries
\* an empty memories_retrieved and the response is a success.
C9_RetrievalFailure ==
    req.retrieval_failed
        => /\ req.pc # "retrieve"
           /\ req.failed_step \notin {"retrieve", "schedule_filter"}
           /\ req.memories_used = <<>>
           /\ \A r \in StoredRows : r.memories_retrieved = <<>>
           /\ req.pc \in {"persist", "increment", "respond", "done"} => req.llm_called
           /\ req.pc = "done"
                => (req.status = 200 /\ StoredRows # {}
                    /\ req.response.active_memories = <<>>)

C9_Witness ==
    /\ req.retrieval_failed
    /\ req.pc = "done"
    /\ req.status = 200
    /\ ann # {}

\* C10: silence mode is active exactly when the highest relevance_score of
\* the retrieved results is below 0.30 and the query is neither comprehensive
\* nor knowledge-seeking; when active, nothing of the retrieved set reaches
\* the system prompt and active_memories is empty; when not active the
\* retrieved set is kept.
C10_SilenceMode ==
    Composed
        => /\ req.silence_mode
                <=> (/\ MaxRelevance(req.search_returned) < SILENCE_THRESHOLD
                     /\ ~is_comprehensive(req.message)
                     /\ ~is_knowledge_query(req.message))
           /\ req.silence_mode
                => /\ req.search_results = <<>>
                   /\ req.prompt.memory_context.ids = <<>>
                   /\ req.prompt.memory_count = 0
                   /\ req.prompt.user_name = NoText
                   /\ req.pc = "done" => req.response.active_memories = <<>>
           /\ ~req.silence_mode => req.search_results = req.search_returned

\* C12: a create whose INSERT of the row fails issues no upsert to the ANN
\* index: the index is the same after the call as before it.
C12_FailedInsertNoUpsert ==
    [][(crudCount' # crudCount /\ lastOp'.op = "create" /\ lastOp'.failed_step = "insert")
          => ann' = ann]_vars

C12_Witness ==
    /\ lastOp.op = "create"
    /\ lastOp.failed_step = "insert"
    /\ ann # {}
    /\ \A e \in ann : e.content # lastOp.content

\* C13: when the ANN upsert of a create fails after the INSERT went through,
\* the row of the memory remains in the row store and get returns it.
C13_RowKeptAfterUpsertFailure ==
    (lastOp.op = "create" /\ lastOp.failed_step = "upsert")
        => /\ \E r \in rows : r.id = lastOp.id /\ r.content = lastOp.content
           /\ get_memory(lastOp.id) # {}

\* default limit of GET /memories/list
LIST_LIMIT == 50

\* C19: get(id) after a create returns a memory with the content that was
\* created; after a delete(id), get(id) finds nothing and the memory is not
\* in the user's listing; a get reports found exactly when the row exists,
\* with the row's content.
C19_CreateGetDeleteRoundTrip ==
    /\ [][\A id \in MemIds :
            (/\ crudCount' # crudCount /\ lastOp'.op = "create" /\ lastOp'.id = id
             /\ lastOp'.failed_step = None)
               => /\ (get_memory(id))' # {}
                  /\ \A m \in (get_memory(id))' : m.content = lastOp'.content]_vars
    /\ [][\A id \in MemIds :
            (/\ crudCount' # crudCount /\ lastOp'.op = "delete" /\ lastOp'.id = id
             /\ lastOp'.deleted # {})
               => /\ (get_memory(id))' = {}
                  /\ \A u \in Users :
                        \A r \in (get_user_memories(rows, u, LIST_LIMIT))' : r.id # id]_vars
    /\ [](lastOp.op = "get"
            => /\ lastOp.found <=> \E r \in rows : r.id = lastOp.id
               /\ lastOp.found => \E r \in rows : r.id = lastOp.id /\ r.content = lastOp.content)

C19_Witness ==
    /\ lastOp.op = "get"
    /\ ~lastOp.found
    /\ createdFor[lastOp.id] # None
    /\ \A u \in Users : \A r \in get_user_memories(rows, u, LIST_LIMIT) : r.id # lastOp.id

\* C14: every memory a turn retrieves has a source_turn that is not after
\* the turn number of that turn.
C14_SourceTurnNotAfterCurrentTurn ==
    \A i \in 1..Len(req.search_returned) :
        req.search_returned[i].source_turn <= req.turn_number

\* C18: a turn that was answered went through retrieve, compose, generate
\* and persist in that order, and the turn_id of the response is the turn_id
\* of the conversation_turn row the persist step inserted.
C18_ResponseCarriesStoredTurnId ==
    (req.pc = "done" /\ req.status = 200)
        => /\ req.llm_called
           /\ StoredRows # {}
           /\ \A r \in StoredRows : req.response.turn_id = r.turn_id

\* C11: a search never returns a memory whose row is gone: every result of a
\* turn's retrieval has a row in the row store at the time of the search.
C11_NoResultWithoutRow ==
    [][(req.pc = "retrieve" /\ req'.pc # "retrieve")
          => \A i \in 1..Len(req'.search_returned) :
                \E r \in rows : r.id = req'.search_returned[i].memory_id]_vars

LifecycleOps == {"expire", "cleanup_fulfilled", "cleanup_old", "decay"}

\* a lifecycle operation has just run
LifecycleStep == crudCount' # crudCount /\ lastOp'.op \in LifecycleOps

\* C15: no lifecycle operation deletes a memory whose importance_level is
\* critical.
C15_CriticalNeverDeleted ==
    [][LifecycleStep
          => \A r \in rows :
                r.importance_level = "critical" => \E x \in rows' : x.id = r.id]_vars

\* C16: a lifecycle operation deletes a memory only if it is an entity older
\* than the TTL or a commitment marked fulfilled; preferences, facts,
\* instructions and unfulfilled commitments are retained.
C16_OnlyExpiredEntitiesOrFulfilled ==
    [][LifecycleStep
          => \A r \in rows :
                (\A x \in rows' : x.id # r.id)
                    => \/ r.type = "entity" /\ now - r.created_at > ENTITY_TTL_DAYS
                       \/ r.type = "commitment" /\ r.fulfilled]_vars

\* C17: every result search builds has relevance_score in [0,1], similarity
\* in [-1,1], recency in [0,1] and access score in [0,1], for every match
\* (score, confidence, access_count, source_turn, conflict flag) and each of
\* the three weight profiles.
C17_ScoresInRange ==
    \A r \in probe.results :
        /\ 0 <= r.relevance_score /\ r.relevance_score <= PPM
        /\ -PPM <= r.similarity_score /\ r.similarity_score <= PPM
        /\ 0 <= r.recency_score /\ r.recency_score <= PPM
        /\ 0 <= r.access_score /\ r.access_score <= PPM

C17_Witness ==
    /\ probe.match.access_count = 1000
    /\ probe.match.score = PPM
    /\ \E r \in probe.results : r.relevance_score = PPM

\* C20: a text whose embedding is in the cache when generate or
\* generate_batch is called for it (the cache answering) is not sent to the
\* provider by that call.
C20_CachedTextsSkipProvider ==
    [][(embCount' # embCount /\ embOp'.cache_ok)
          => \A t \in Cached : t \notin Range(embOp'.provider_texts)]_vars

\* Turns of one user without retrieval and their extraction tasks, over a
\* store that explicit creates filled before the first turn.
CanonSeeds == {CandCallMorning, CandBangalore}

CanonCandidateLists == { <<CandName>>, <<CandCallEleven>>, <<CandBangalore, CandCallEleven>> }

NextCanon ==
    \/ /\ reqCount = 0
       /\ crudCount < MaxSeeds
       /\ \E mc \in CanonSeeds, st \in CrudSourceTurns : CrudCreate("u1", mc, st)
    \/ \E shape \in PipelineShapes : StartTurn("u1", NoConv, shape)
    \/ RetrieveSkipped
    \/ Compose
    \/ Generate
    \/ StoreTurn
    \/ IncrementAndDetach
    \/ Respond(TRUE)
    \/ \E t \in TaskIds, cl \in CanonCandidateLists : TaskExtract(t, cl)
    \/ \E t \in TaskIds : TaskCanonRaise(t)
    \/ \E t \in TaskIds, check_failed \in BOOLEAN : TaskSkipDuplicate(t, check_failed)
    \/ \E t \in TaskIds, check_failed \in BOOLEAN : TaskCreate(t, check_failed)
    \/ \E t \in TaskIds : TaskCommit(t)

SpecCanon == Init /\ [][NextCanon]_vars

\* the patterns of a canonical key
PatternsOf(key) ==
    UNION {CANONICAL_KEYS[i].patterns : i \in {j \in 1..Len(CANONICAL_KEYS) : CANONICAL_KEYS[j].key = key}}

\* the memories _find_canonical_memory is to find for the candidate task t
\* is at: same user, same type, content with a pattern of the candidate's key
CanonicalMatches(t) ==
    {r \in TaskVisible(t) :
        /\ r.user_id = tasks[t].user_id
        /\ r.type = CurrentCandidate(t).type
        /\ ContainsAny(Lower(r.content),
                       PatternsOf(_detect_canonical_key(CurrentCandidate(t).content)))}

\* task t handles a preference or instruction with a canonical key for which
\* a memory of the same user, type and key exists
CanonicalUpdateCase(t) ==
    /\ TaskAtCandidate(t)
    /\ CurrentCandidate(t).type \in CanonicalTypes
    /\ _detect_canonical_key(CurrentCandidate(t).content) # None
    /\ CanonicalMatches(t) # {}

\* C21: each canonical in-place update (the candidate's key resolves to an
\* existing memory of the same user and type) raises the version held in that
\* memory's context by exactly one.
C21_InPlaceUpdateBumpsVersion ==
    [][\A t \in TaskIds :
          (CanonicalUpdateCase(t) /\ tasks'[t] # tasks[t])
              => \E r \in CanonicalMatches(t) :
                    \E x \in rows' : x.id = r.id /\ x.version = r.version + 1]_vars

\* result.memory.type in [commitment, entity]
IsScheduleType(result) == result.type \in {"commitment", "entity"}

\* C22: a turn whose message is a schedule query takes the schedule branch,
\* its search scores with the schedule weight profile, and the memory set
\* the turn goes on with is exactly the retrieved memories of type commitment
\* or entity.
C22_ScheduleTurnKeepsCommitmentsAndEntities ==
    (req.branch = "schedule" /\ ~req.retrieval_failed)
        => /\ is_schedule_query(req.message)
           /\ _detect_query_type(BranchQuery("schedule", req.message)) = "schedule"
           /\ req.pc # "error"
           /\ req.search_results = SelectSeq(req.search_returned, IsScheduleType)
                 \/ req.silence_mode
           /\ req.memories_used = Ids(SelectSeq(req.search_returned, IsScheduleType))

\* The orchestrator under the event loop's scheduling: a handler that has
\* its search results runs each of its later steps (to its response or to an
\* error).
TurnFairness ==
    /\ WF_vars(RetrieveSkipped)
    /\ WF_vars(Compose)
    /\ WF_vars(Generate \/ GenerateFail)
    /\ WF_vars(StoreTurn \/ StoreTurnFail)
    /\ WF_vars(IncrementAndDetach \/ IncrementFail)
    /\ WF_vars(\E update_ok \in BOOLEAN : Respond(update_ok))

SpecTurnFair == SpecTurn /\ TurnFairness

\* the turn in flight was answered and memory id was among its results
RetrievedAndAnswered(id) ==
    /\ req.pc = "done"
    /\ req.status = 200
    /\ \E i \in 1..Len(req.search_returned) : req.search_returned[i].memory_id = id

\* C23: after a retrieval has returned memory m and the turn was answered, a
\* deferred update eventually raises m's access_count (0 at creation) in the
\* row store.
C23_AccessCountEventuallyIncremented ==
    \A id \in MemIds :
        RetrievedAndAnswered(id) ~> (\E r \in rows : r.id = id /\ r.access_count >= 1)

\* get_current_user: the requests that follow carry the credentials of u
Login(u) ==
    /\ caller # u
    /\ caller' = u
    /\ UNCHANGED <<rows, ann, cache, nextId, createdFor, convs, turns, nextTurnId, req,
                   reqCount, tasks, titleTasks, crudCount, lastSearch, lastOp, now,
                   embCache, embOp, embCount, probe>>

\* The memory endpoints called by two users in turn.  POST /memories takes
\* the user_id of its body; GET, PUT and DELETE /memories/{id} take the id of
\* the path; search takes the authenticated user.
AccessCandidates == {CandBangalore, CandName}

\* values of the query parameter top_k
SearchTopKs == {0, 1, 51, 101}

NextAccess ==
    \/ \E u \in Users : Login(u)
    \/ /\ caller # None
       /\ \E u \in Users, mc \in AccessCandidates, st \in CrudSourceTurns : CrudCreate(u, mc, st)
    \/ /\ caller # None
       /\ \E id \in MemIds, patch \in UpdatePatches : CrudUpdate(id, patch)
    \/ /\ caller # None
       /\ \E id \in MemIds : CrudDelete(id)
    \/ /\ caller # None
       /\ \E id \in MemIds : CrudGet(id)
    \/ /\ caller # None
       /\ \E top_k \in SearchTopKs, failed \in BOOLEAN :
             SearchRequest(caller, MsgWhere, top_k, failed)

SpecAccess == Init /\ [][NextAccess]_vars

\* C24: create, get, update and delete act inside the caller's own user
\* scope only: a call by user A creates no memory under another user_id,
\* returns no memory of another user and leaves the rows and ANN entries of
\* every other user as they were.
C24_CallerScope ==
    [][crudCount' # crudCount
          => /\ lastOp'.op = "create" => createdFor'[lastOp'.id] = caller
             /\ (lastOp'.op = "get" /\ lastOp'.found) => createdFor[lastOp'.id] = caller
             /\ \A r \in rows : r.user_id # caller => r \in rows'
             /\ \A e \in ann : e.user_id # caller => e \in ann']_vars

\* C25: a turn request that names a conversation which does not exist or is
\* owned by another user is answered with 404 Not Found, and it causes no
\* retrieval, no LLM call, no turn row and no detached task.
C25_UnknownConversationRejected ==
    req.failed_step = "resolve"
        => /\ req.pc = "error"
           /\ req.status = 404
           /\ req.branch = None
           /\ req.search_returned = <<>>
           /\ ~req.llm_called
           /\ req.stored_turn_id = 0
           /\ req.task = 0

\* C26: when the duplicate check itself fails (fetching the recent memories
\* or embedding the candidate raises), the candidate is not skipped: the
\* step that handles it is the create, which adds the candidate's row to the
\* task's session and its vector to the ANN index.
C26_DuplicateCheckFailsOpen ==
    [][\A t \in TaskIds :
          (/\ TaskAtCandidate(t)
           /\ tasks'[t].i = tasks[t].i + 1
           /\ tasks'[t].check_failed)
              => \E r \in tasks'[t].pending \ tasks[t].pending :
                    /\ r.content = CurrentCandidate(t).content
                    /\ r.user_id = tasks[t].user_id
                    /\ r.id \in tasks'[t].upserted
                    /\ \E e \in ann' : e.id = r.id]_vars

\* a task whose check failed created a memory whose content another memory
\* of the user already has
C26_Witness ==
    \E t \in TaskIds :
        /\ tasks[t].check_failed
        /\ \E r \in tasks[t].pending, x \in rows :
              x.id # r.id /\ x.user_id = r.user_id /\ x.content = r.content

\* the turn distance of the scored match
ProbeDistance == probe.current_turn - probe.match.source_turn

\* 0.993 ** d in ppm: above 1 for d < 0 (1 / 0.993 ** -d); from the distance
\* on where it is below the floor 0.1, a value below the floor stands for it
DecayPower(d) ==
    IF d < 0 THEN (PPM * 1000) \div (Pow993(0 - d) \div 1000)
    ELSE IF d >= RECENCY_FLOOR_DISTANCE THEN 99999
    ELSE Pow993(d)

\* distances at which the score is compared with that of the scored match
RecencyDistances == {-2, 0, 1, 5, 40, 328, 693, 1000}

C28_TopKZeroReturnsEmpty ==
    (lastOp.op = "search" /\ lastOp.top_k = 0)
        => /\ lastOp.failed_step = None
           /\ lastSearch.user_id = lastOp.user_id
           /\ lastSearch.results = <<>>

\* C29: after any update of a stored memory, the content, source_turn and
\* confidence held for its id in the ANN index equal those of its row.
C29_AnnMatchesRowAfterUpdate ==
    lastOp.op = "update"
        => \A r \in rows, e \in ann :
              (r.id = lastOp.id /\ e.id = lastOp.id)
                  => /\ e.content = r.content
                     /\ e.source_turn = r.source_turn
                     /\ e.confidence = r.confidence

\* C30: when a detached extraction task has ended, normally or by an
\* exception partway through its candidate loop, every memory_id it upserted
\* into the ANN index has a committed row.
C30_NoAnnOnlyMemoryAfterTask ==
    \A t \in TaskIds :
        tasks[t].pc \in {"done", "failed"}
            => \A id \in tasks[t].upserted :
                  (\E e \in ann : e.id = id) => \E r \in rows : r.id = id

\* C31: get(id) gives the same result from the memory cache as from the row
\* store: a cached entry never holds a memory whose row is gone or whose
\* content differs from the row's.
C31_CacheAgreesWithRowStore ==
    \A id \in MemIds :
        \A m \in cache[id] :
            \E r \in rows : r.id = id /\ r.content = m.content

\* one of the user's 50 most recently created memories, as the task's session
\* sees them, has cosine similarity >= 0.95 with the candidate at hand
HasNearNeighbour(t) ==
    LET mine == {r \in TaskVisible(t) : r.user_id = tasks[t].user_id}
    IN \E x \in mine :
          /\ Cardinality({y \in mine : y.id > x.id}) < 50
          /\ Cosine(EmbeddingOf(CurrentCandidate(t).content), EmbeddingOf(x.content))
                >= 950000

\* the task goes on to its next candidate
CandidateHandled(t) == TaskAtCandidate(t) /\ tasks'[t].i = tasks[t].i + 1

\* the candidate at hand was stored: a row in the task's session, its vector
\* in the ANN index
CandidateCreated(t) ==
    \E r \in tasks'[t].pending \ tasks[t].pending :
        /\ r.content = CurrentCandidate(t).content
        /\ r.user_id = tasks[t].user_id
        /\ \E e \in ann' : e.id = r.id /\ e.content = r.content

C34_MostRecentMatchUpdated ==
    [][\A t \in TaskIds :
          (/\ CanonicalUpdateCase(t)
           /\ Cardinality(CanonicalMatches(t)) >= 2
           /\ tasks'[t] # tasks[t])
              => \E r \in CanonicalMatches(t) :
                    /\ \A x \in CanonicalMatches(t) : x.created_at <= r.created_at /\ x.id <= r.id
                    /\ \E x \in rows' : x.id = r.id
                                        /\ x.content = CurrentCandidate(t).content]_vars

\* the tier the tiering rule gives the scored match: HOT if D <= 50, WARM if
\* 50 < D <= 500, COLD otherwise
ProbeTierByRule ==
    IF ProbeDistance <= 50 THEN "hot" ELSE IF ProbeDistance <= 500 THEN "warm" ELSE "cold"

\* the scored match passes the confidence floor and its scores are in range
ProbeOtherwiseKept ==
    /\ probe.match.confidence >= 500000
    /\ 0 - 1000000 <= probe.match.score /\ probe.match.score <= 1000000

MaxSearchCalls == 2

\* memories stored before the calls: four near the query of different age,
\* one far from it, one near it of low confidence, one of another user
SearchPool ==
    { NewRow(1, "u1", CandBangalore, 5),
      NewRow(2, "u1", CandBangaloreCased, 5),
      NewRow(3, "u1", CandName, 5),
      NewRow(4, "u1", CandCallMorning, 5),
      NewRow(5, "u1", Candidate("fact", TxtBangalore, 400000), 5),
      NewRow(6, "u1", CandCallEleven, 650),
      NewRow(7, "u2", CandBangalore, 5) }

InitSearch ==
    /\ now = 0
    /\ \E stored \in SUBSET SearchPool :
          /\ Cardinality(stored) >= 4
          /\ rows = stored
          /\ ann = {AnnEntry(r) : r \in stored}
    /\ cache = [m \in MemIds |-> {}]
    /\ nextId = Cardinality(SearchPool)
    /\ createdFor = [m \in MemIds |-> None]
    /\ convs = [c \in ConvIds |-> {}]
    /\ turns = {}
    /\ nextTurnId = 0
    /\ req = IdleReq
    /\ reqCount = 0
    /\ tasks = [t \in TaskIds |-> NoTask]
    /\ titleTasks = {}
    /\ crudCount = 0
    /\ lastSearch = [user_id |-> None, results |-> <<>>]
    /\ lastOp = NoOp
    /\ embCache = [t \in EmbedTexts |-> {}]
    /\ embOp = NoEmbOp
    /\ embCount = 0
    /\ probe = NoProbe
    /\ caller = None

\* retriever.search(MemorySearchQuery(user_id, query, top_k, current_turn))
RetrieverSearch(user_id, query_text, top_k, current_turn, failed) ==
    /\ crudCount < MaxSearchCalls
    /\ TopKFieldValid(top_k)
    /\ \E out \in search(ann, user_id, query_text, top_k, current_turn, failed) :
          lastSearch' = [user_id |-> user_id, results |-> out.results]
    /\ lastOp' = [NoOp EXCEPT !.op = "search", !.user_id = user_id, !.top_k = top_k,
                              !.content = query_text, !.current_turn = current_turn,
                              !.failed_step = IF failed THEN "search" ELSE None]
    /\ crudCount' = crudCount + 1
    /\ UNCHANGED <<rows, ann, cache, nextId, createdFor, convs, turns, nextTurnId, req,
                   reqCount, tasks, titleTasks, Side>>

SearchCallTopKs == {1, 2}
SearchCallTurns == {7, 700}

NextSearch ==
    \E top_k \in SearchCallTopKs, current_turn \in SearchCallTurns, failed \in BOOLEAN :
        RetrieverSearch("u1", MsgWhere, top_k, current_turn, failed)

SpecSearch == InitSearch /\ [][NextSearch]_vars

\* the ANN entries of the user of the last search call
QueriedEntries == {e \in ann : e.user_id = lastOp.user_id}

\* cosine score of an entry against the query of the last search call
QuerySimilarity(e) == Cosine(EmbeddingOf(lastOp.content), EmbeddingOf(e.content))

\* the number of candidates the last search call asked the ANN index for
CandidateLimit == IF lastOp.top_k * 3 < 50 THEN lastOp.top_k * 3 ELSE 50

\* e may be / must be among the candidates the ANN index returned
MayBeCandidate(e) ==
    Cardinality({x \in QueriedEntries : x # e /\ QuerySimilarity(x) > QuerySimilarity(e)})
        < CandidateLimit

MustBeCandidate(e) ==
    Cardinality({x \in QueriedEntries : x # e /\ QuerySimilarity(x) >= QuerySimilarity(e)})
        < CandidateLimit

\* what the loop of the last search call makes of entry e: one result, or
\* nothing when e is discarded
ScoredEntry(e) ==
    SearchResultOf(e, lastOp.user_id, lastOp.content, lastOp.current_turn, 500000)

StoredTurn(turn_id, conversation_id, turn_number) ==
    [turn_id |-> turn_id, conversation_id |-> conversation_id, user_id |-> "u1",
     turn_number |-> turn_number, memories_retrieved |-> <<>>]

TurnPool ==
    {StoredTurn(n, 1, n) : n \in 1..6} \cup {StoredTurn(7, 1, 9), StoredTurn(8, 2, 3)}

InitConversation ==
    /\ \E stored \in SUBSET TurnPool :
          /\ Cardinality(stored) >= 6
          /\ turns = stored
          /\ convs = [c \in ConvIds |->
                        {[user_id |-> "u1",
                          turn_count |-> Cardinality({t \in stored : t.conversation_id = c})]}]
    /\ nextTurnId = Cardinality(TurnPool)
    /\ rows = {}
    /\ ann = {}
    /\ cache = [m \in MemIds |-> {}]
    /\ nextId = 0
    /\ createdFor = [m \in MemIds |-> None]
    /\ req = IdleReq
    /\ reqCount = 0
    /\ tasks = [t \in TaskIds |-> NoTask]
    /\ titleTasks = {}
    /\ crudCount = 0
    /\ lastSearch = [user_id |-> None, results |-> <<>>]
    /\ lastOp = NoOp
    /\ now = 0
    /\ embCache = [t \in EmbedTexts |-> {}]
    /\ embOp = NoEmbOp
    /\ embCount = 0
    /\ probe = NoProbe
    /\ caller = None

ConversationShapes == { <<4, MsgWhere, FALSE>>, <<8, MsgWhere, FALSE>> }

NextConversation ==
    \/ \E shape \in ConversationShapes : StartTurn("u1", 1, shape)
    \/ RetrieveSkipped
    \/ Compose
    \/ ComposeHistoryFail
    \/ Generate
    \/ StoreTurn
    \/ StoreTurnFail
    \/ IncrementAndDetach
    \/ IncrementFail
    \/ Respond(TRUE)

SpecConversation == InitConversation /\ [][NextConversation]_vars

\* the persisted turns of the conversation of the request in flight whose
\* turn_number is lower than the request's
EarlierTurns ==
    {t \in turns : /\ t.conversation_id = req.conversation_id
                   /\ t.turn_number < req.turn_number}

\* the short-term tail: the at most 5 most recent earlier turns of the
\* conversation, in increasing turn order
HistoryIsTail ==
    /\ Len(req.history) = (IF Cardinality(EarlierTurns) < 5
                           THEN Cardinality(EarlierTurns) ELSE 5)
    /\ \A i \in 1..Len(req.history) : req.history[i] \in EarlierTurns
    /\ \A i, j \in 1..Len(req.history) :
          i < j => /\ req.history[i].turn_number <= req.history[j].turn_number
                   /\ req.history[i] # req.history[j]
    /\ \A t \in EarlierTurns : \A i \in 1..Len(req.history) :
          t \in Range(req.history) \/ t.turn_number <= req.history[i].turn_number

C38_OneRowAndOneTaskPerTurn ==
    /\ \A a, b \in turns :
          (a.conversation_id = b.conversation_id /\ a.turn_number = b.turn_number)
              => a = b
    /\ \A t1, t2 \in TaskIds :
          (/\ t1 # t2
           /\ tasks[t1].pc # "none" /\ tasks[t2].pc # "none"
           /\ tasks[t1].conversation_id = tasks[t2].conversation_id)
              => tasks[t1].turn_number # tasks[t2].turn_number

\* C39: for every conversation, turn_count equals the number of
\* conversation_turn rows persisted for it, whenever no request is between
\* the insert of its turn and the increment.
C39_TurnCountMatchesRows ==
    req.pc \in {"idle", "done", "error"}
        => \A c \in ConvIds : \A conv \in convs[c] :
              conv.turn_count = Cardinality({t \in turns : t.conversation_id = c})

\* C40: apply_decay(user, current_turn) writes the recomputed decay_score to
\* the store exactly for the user's memories whose score changed by more
\* than 0.05, leaves every other stored decay_score unchanged, and returns
\* the number of memories written.
C40_DecayWrittenBack ==
    [][(lastOp'.op = "decay" /\ crudCount' = crudCount + 1)
          => /\ \A r \in rows :
                  \E x \in rows' :
                      /\ x.id = r.id
                      /\ x.decay_score =
                            IF r \in DecayChanged(lastOp'.user_id, lastOp'.current_turn)
                            THEN calculate_decay(r, lastOp'.current_turn)
                            ELSE r.decay_score
             /\ lastOp'.updated_count = Cardinality({r \in rows : r \notin rows'})]_vars

====
